---------------------------- MODULE Spec2Model ----------------------------
(***************************************************************************)
(* The Room durable object of cf_ai_agentworkspaces (worker/src/room.ts,   *)
(* present as src/unnamed/part_003): one actor per room that owns the      *)
(* connections, the bounded chat history, pinned memory, artifacts,        *)
(* settings, their persistence, and the single-flight AI turn.             *)
(*                                                                         *)
(* Execution model.  Every host callback (fetch, webSocketMessage,         *)
(* webSocketClose, the setTimeout callback, the continuation of an         *)
(* inference call) is one action.  An action runs the whole callback: the  *)
(* awaits on ctx.storage inside a callback do not admit other events (the  *)
(* durable object's input gate holds events back while a storage           *)
(* operation is pending), whereas the await on env.AI.run does, so an AI   *)
(* turn is split at each inference call.  Storage writes are applied in    *)
(* the order issued and are visible to every later read.                   *)
(*                                                                         *)
(* Strings that the code parses or formats (chat text, notices, results    *)
(* of the domain operations) are sequences of tokens; concatenation is \o, *)
(* and trim/startsWith/slice work on tokens.  Names (user, type, kind) are *)
(* plain strings.                                                          *)
(***************************************************************************)
EXTENDS Integers, Sequences, FiniteSets, TLC

(***************************************************************************)
(* Program constants                                                       *)
(***************************************************************************)
HEARTBEAT_INTERVAL_MS == 30000
STALE_TIMEOUT_MS == 45000
MAX_HISTORY == 50
HISTORY_FLUSH_INTERVAL == 5
MAX_USER_LEN == 64
MAX_TEXT_LEN == 2000

(***************************************************************************)
(* Bounds of the model                                                     *)
(***************************************************************************)
\* connections are 1..MaxConns
MaxConns == 2
\* the clock moves on by TickMs at a time, MaxTicks times at most
TickMs == 15000
MaxTicks == 4
\* the input gate holds at most MaxHeld frames
MaxHeld == 1
\* chat frames are accepted from the environment while now <= MaxNow
MaxNow == 2
\* memory.add / add_memory inputs are offered while the list is shorter
MaxMem == 2
MaxTodos == 1
\* artifact.create inputs are offered while fewer artifacts exist
MaxArtifacts == 1
\* in the specification of the history flush chat frames are accepted while
\* now <= MaxBurst
MaxBurst == 6
\* in the specification of the artifacts, creations are offered while fewer
\* than MaxIds ids were handed out
MaxIds == 2

(***************************************************************************)
(* Texts                                                                   *)
(***************************************************************************)
Space == " "
NL == "\n"
\* a token standing for a run of 2001 ordinary characters
LongTok == "<2001 chars>"
\* a value that is not a string (a missing or non-string JSON field)
UndefinedText == <<"<undefined>">>
UndefinedName == "<undefined>"

TokLen(tok) == IF tok = LongTok THEN MAX_TEXT_LEN + 1 ELSE Len(tok)

RECURSIVE TextLen(_)
TextLen(t) == IF t = <<>> THEN 0 ELSE TokLen(Head(t)) + TextLen(Tail(t))

RECURSIVE TrimLeft(_)
TrimLeft(t) == IF t # <<>> /\ Head(t) = Space THEN TrimLeft(Tail(t)) ELSE t

RECURSIVE TrimRight(_)
TrimRight(t) ==
  IF t # <<>> /\ t[Len(t)] = Space THEN TrimRight(SubSeq(t, 1, Len(t) - 1)) ELSE t

\* String.prototype.trim
Trim(t) == TrimRight(TrimLeft(t))

\* String.prototype.startsWith
StartsWith(t, p) == Len(t) >= Len(p) /\ SubSeq(t, 1, Len(p)) = p

\* text.slice(prefix.length)
SliceFrom(t, p) == SubSeq(t, Len(p) + 1, Len(t))

\* the tokens whose first character is "/"
SlashToks == {"/remember", "/todo", "/memory", "/export", "/reset", "/summarize"}
StartsWithSlash(t) == t # <<>> /\ Head(t) \in SlashToks

\* Array.prototype.join over texts
RECURSIVE Join(_, _)
Join(parts, sep) ==
  IF parts = <<>> THEN <<>>
  ELSE IF Len(parts) = 1 THEN parts[1]
  ELSE parts[1] \o sep \o Join(Tail(parts), sep)

\* the list of the elements of a set of integers, ascending
RECURSIVE SortedSeq(_)
SortedSeq(S) ==
  IF S = {} THEN <<>>
  ELSE LET m == CHOOSE x \in S : \A y \in S : x <= y
       IN <<m>> \o SortedSeq(S \ {m})

(***************************************************************************)
(* Values                                                                  *)
(***************************************************************************)
Conns == 1..MaxConns
\* Date.now() when the room is first constructed: later than STALE_TIMEOUT_MS
\* after the epoch, as every real clock is
Started == STALE_TIMEOUT_MS + HEARTBEAT_INTERVAL_MS
DEFAULT_SYSTEM_PROMPT == <<"You are a friendly AI participant">>
DEFAULT_SETTINGS == [systemPrompt |-> DEFAULT_SYSTEM_PROMPT, aiAutoRespond |-> FALSE]
EmptyPinned == [memories |-> <<>>, todos |-> <<>>]

\* a TodoItem {text, done}; str marks a legacy element that is a plain string
TodoItem(text, done) == [str |-> FALSE, text |-> text, done |-> done]
LegacyTodo(text) == [str |-> TRUE, text |-> text, done |-> FALSE]

\* the four storage keys; a key holds <<>> (absent) or <<value>>
SK == {"pinned", "history", "artifacts", "settings"}
NoKeys == [pinned |-> <<>>, history |-> <<>>, artifacts |-> <<>>, settings |-> <<>>]

VARIABLES
  conns,            \* ctx.getWebSockets() with readyState OPEN
  broken,           \* the open sockets whose send throws
  userNames,        \* this.userNames (and this.clientIds): "" when not set
  history,          \* this.history
  pinned,           \* this.pinned
  artifacts,        \* this.artifacts
  settings,         \* this.settings
  aiRunning,        \* this.aiRunning
  loaded,           \* this.loaded
  historyDirty,     \* this.historyDirty
  pinnedFlushTimer, \* this.pinnedFlushTimer is not null
  store,            \* ctx.storage: the four keys
  calls,            \* the inference calls awaiting their result, oldest first
  now,              \* Date.now(): it moves on after a callback that stamped
                    \* a chat entry, so that entries are told apart
  nextId,           \* the number of ids crypto.randomUUID has handed out
  out,              \* what the last callback sent and wrote, in order
  ret,              \* the string the last domain operation returned
  threw,            \* whether the last callback ended by an exception
  last,             \* the last callback and its input
  sent,             \* the entries given to broadcastChat since the state was
                    \* last reset, dropped or hydrated
  lastSeen,         \* this.lastSeen: <<>> when the map has no entry
  heartbeatAlarm,   \* this.heartbeatAlarm
  alarmAt,          \* ctx.storage's alarm: <<>> or <<the time it is due>>
  clock,            \* Date.now() as the heartbeat reads it, in milliseconds
  heard,            \* when each open connection was last heard from (its
                    \* upgrade request or its last inbound frame)
  timers,           \* the number of setTimeout callbacks that are pending
  pending,          \* the frame whose handler waits for the hydration read
  held              \* the frames the input gate holds back, oldest first

vars == <<conns, broken, userNames, history, pinned, artifacts, settings,
          aiRunning, loaded, historyDirty, pinnedFlushTimer, store, calls,
          now, nextId, out, ret, threw, last, sent, lastSeen, heartbeatAlarm,
          alarmAt, clock, heard, timers, pending, held>>

\* the state a callback starts from
Cur == [conns |-> conns, broken |-> broken, userNames |-> userNames,
        history |-> history, pinned |-> pinned, artifacts |-> artifacts,
        settings |-> settings, aiRunning |-> aiRunning, loaded |-> loaded,
        historyDirty |-> historyDirty, pinnedFlushTimer |-> pinnedFlushTimer,
        store |-> store, calls |-> calls, now |-> now, nextId |-> nextId,
        out |-> <<>>, ret |-> <<>>, thrown |-> FALSE, err |-> <<>>,
        stamped |-> FALSE, sent |-> sent, lastSeen |-> lastSeen,
        heartbeatAlarm |-> heartbeatAlarm, alarmAt |-> alarmAt, clock |-> clock,
        heard |-> heard, timers |-> timers, pending |-> pending, held |-> held]

\* the state a callback leaves
Commit(end, label) ==
  \E s \in {end} :
  /\ conns' = s.conns
  /\ broken' = s.broken
  /\ userNames' = s.userNames
  /\ history' = s.history
  /\ pinned' = s.pinned
  /\ artifacts' = s.artifacts
  /\ settings' = s.settings
  /\ aiRunning' = s.aiRunning
  /\ loaded' = s.loaded
  /\ historyDirty' = s.historyDirty
  /\ pinnedFlushTimer' = s.pinnedFlushTimer
  /\ store' = s.store
  /\ calls' = s.calls
  /\ now' = IF s.stamped THEN s.now + 1 ELSE s.now
  /\ nextId' = s.nextId
  /\ out' = s.out
  /\ ret' = s.ret
  /\ threw' = s.thrown
  /\ last' = label
  /\ sent' = s.sent
  /\ lastSeen' = s.lastSeen
  /\ heartbeatAlarm' = s.heartbeatAlarm
  /\ alarmAt' = s.alarmAt
  /\ clock' = s.clock
  /\ heard' = s.heard
  /\ timers' = s.timers
  /\ pending' = s.pending
  /\ held' = s.held

(***************************************************************************)
(* Sending and storing                                                     *)
(***************************************************************************)
\* an exception: the rest of the callback is skipped up to the next catch
Throw(s, err) == IF s.thrown THEN s ELSE [s EXCEPT !.thrown = TRUE, !.err = err]

\* ws.send(JSON.stringify(msg)): throws on a broken socket
Send(s, c, msg) ==
  IF s.thrown THEN s
  ELSE IF c \in s.broken THEN Throw(s, <<"TypeError: send failed">>)
  ELSE [s EXCEPT !.out = Append(@, [ev |-> "send", to |-> c, msg |-> msg])]

RECURSIVE SendAll(_, _, _)
SendAll(s, cs, msg) ==
  IF cs = <<>> THEN s ELSE SendAll(Send(s, Head(cs), msg), Tail(cs), msg)

getOpenSockets(s) == SortedSeq(s.conns)

broadcast(s, msg) == SendAll(s, getOpenSockets(s), msg)

broadcastPresence(s) ==
  broadcast(s, [type |-> "presence", count |-> Len(getOpenSockets(s))])

\* ctx.storage.put: w gives <<v>> for each key written
StoragePut(s, w) ==
  IF s.thrown THEN s
  ELSE [s EXCEPT !.store = [k \in SK |-> IF w[k] # <<>> THEN w[k] ELSE @[k]],
                 !.out = Append(@, [ev |-> "put", put |-> w])]

\* a function's return value; the callers that are frame handlers drop it
Return(s, r) == IF s.thrown THEN s ELSE [s EXCEPT !.ret = r]

(***************************************************************************)
(* Hydration                                                               *)
(***************************************************************************)
\* the migration of line 77: every element becomes {text: element, done: false};
\* an element that is already an object becomes the text "[object Object]"
MigratedTodo(t) ==
  TodoItem(IF t.str THEN t.text ELSE <<"[object Object]">>, FALSE)

\* a migration that turns the list around
MigrateTodosReversed(todos) ==
  [i \in 1..Len(todos) |-> MigratedTodo(todos[Len(todos) + 1 - i])]

MigrateTodos(todos) == [i \in 1..Len(todos) |-> MigratedTodo(todos[i])]

\* { ...DEFAULT_SETTINGS, ...stored }: stored may lack fields
MergeSettings(stored) ==
  [systemPrompt |-> IF "systemPrompt" \in DOMAIN stored
                    THEN stored.systemPrompt ELSE DEFAULT_SETTINGS.systemPrompt,
   aiAutoRespond |-> IF "aiAutoRespond" \in DOMAIN stored
                     THEN stored.aiAutoRespond ELSE DEFAULT_SETTINGS.aiAutoRespond]

\* lines 73-85: what ensureLoaded does with the map that the read returned
HydrateFrom(s, map) ==
    LET hasPinned == map["pinned"] # <<>>
        p0 == IF hasPinned THEN map["pinned"][1] ELSE s.pinned
        migrate == hasPinned /\ Len(p0.todos) > 0 /\ p0.todos[1].str
        p1 == IF migrate THEN [p0 EXCEPT !.todos = MigrateTodos(@)] ELSE p0
        s1 == [s EXCEPT !.pinned = p1]
        s2 == IF migrate THEN StoragePut(s1, [NoKeys EXCEPT !.pinned = <<p1>>]) ELSE s1
        h == IF map["history"] # <<>> THEN map["history"][1] ELSE s.history
    IN [s2 EXCEPT
          !.history = h,
          !.sent = h,
          !.artifacts = IF map["artifacts"] # <<>> THEN map["artifacts"][1] ELSE @,
          !.settings = IF map["settings"] # <<>>
                       THEN MergeSettings(map["settings"][1]) ELSE @]

ensureLoaded(s) ==
  IF s.thrown \/ s.loaded THEN s
  ELSE HydrateFrom([s EXCEPT !.loaded = TRUE], s.store)

(***************************************************************************)
(* Persistence                                                             *)
(***************************************************************************)
\* a schedule that starts a timer whether or not one is pending
schedulePinnedFlushAlways(s) ==
  IF s.thrown THEN s
  ELSE [s EXCEPT !.pinnedFlushTimer = TRUE, !.timers = @ + 1]

schedulePinnedFlush(s) ==
  IF s.thrown \/ s.pinnedFlushTimer THEN s
  ELSE [s EXCEPT !.pinnedFlushTimer = TRUE, !.timers = @ + 1]

\* a flush that waits for one entry more
maybeFlushHistoryLate(s) ==
  IF s.thrown THEN s
  ELSE IF s.historyDirty >= HISTORY_FLUSH_INTERVAL
       THEN StoragePut([s EXCEPT !.historyDirty = 0],
                       [NoKeys EXCEPT !.history = <<s.history>>])
       ELSE [s EXCEPT !.historyDirty = @ + 1]

maybeFlushHistory(s) ==
  IF s.thrown THEN s
  ELSE IF s.historyDirty + 1 >= HISTORY_FLUSH_INTERVAL
       THEN StoragePut([s EXCEPT !.historyDirty = 0],
                       [NoKeys EXCEPT !.history = <<s.history>>])
       ELSE [s EXCEPT !.historyDirty = @ + 1]

(***************************************************************************)
(* Broadcast helpers                                                       *)
(***************************************************************************)
\* a splice from the wrong end, which drops the newest entry instead
PushDropNewest(h, entry) ==
  LET h1 == Append(h, entry)
  IN IF Len(h1) > MAX_HISTORY THEN SubSeq(h1, 1, MAX_HISTORY) ELSE h1

\* the retained suffix after history.push(entry) and the splice of line 663
PushBounded(h, entry) ==
  LET h1 == Append(h, entry)
  IN IF Len(h1) > MAX_HISTORY
     THEN SubSeq(h1, Len(h1) - MAX_HISTORY + 1, Len(h1))
     ELSE h1

broadcastChat(s, user, text) ==
  IF s.thrown THEN s
  ELSE
    LET entry == [user |-> user, text |-> text, ts |-> s.now]
        s1 == [s EXCEPT !.history = PushBounded(@, entry),
                        !.sent = Append(@, entry), !.stamped = TRUE]
    IN broadcast(maybeFlushHistory(s1),
                 [type |-> "chat", user |-> user, text |-> text, ts |-> entry.ts])

\* a notice that goes the way of a chat message, history and all
broadcastSystemStored(s, text) == broadcastChat(s, "System", text)

broadcastSystem(s, text) ==
  broadcast(s, [type |-> "chat", user |-> "System", text |-> text, ts |-> s.now])

broadcastMemoryUpdate(s) ==
  broadcast(s, [type |-> "memory_update", pinned |-> s.pinned])

(***************************************************************************)
(* Reusable mutations (used by the frame handlers and the AI tools)        *)
(***************************************************************************)
Quoted(text) == <<"\"">> \o text \o <<"\"">>

\* Array.prototype.splice(index, 1) for an integer index in range (0-based)
RemoveAt(seq, index) == SubSeq(seq, 1, index) \o SubSeq(seq, index + 2, Len(seq))

InvalidIndex(what, index, count, plural) ==
  <<"Invalid ", what, " index ", ToString(index), ". There are ",
    ToString(count), " ", plural, " (0-indexed).">>

doAddMemory(s, text) ==
  IF s.thrown THEN s
  ELSE LET s1 == [s EXCEPT !.pinned.memories = Append(@, text)]
       IN Return(broadcastMemoryUpdate(schedulePinnedFlush(s1)),
                 <<"Added memory: ">> \o Quoted(text))

doDeleteMemory(s, index) ==
  IF s.thrown THEN s
  ELSE IF index < 0 \/ index >= Len(s.pinned.memories)
  THEN Return(s, InvalidIndex("memory", index, Len(s.pinned.memories), "memories"))
  ELSE LET removed == s.pinned.memories[index + 1]
           s1 == [s EXCEPT !.pinned.memories = RemoveAt(@, index)]
       IN Return(broadcastMemoryUpdate(schedulePinnedFlush(s1)),
                 <<"Deleted memory at index ", ToString(index), ": ">> \o Quoted(removed))

\* an add that announces the todo and schedules no flush
doAddTodoUnscheduled(s, text) ==
  IF s.thrown THEN s
  ELSE LET s1 == [s EXCEPT !.pinned.todos = Append(@, TodoItem(text, FALSE))]
       IN Return(broadcastMemoryUpdate(s1), <<"Added todo: ">> \o Quoted(text))

doAddTodo(s, text) ==
  IF s.thrown THEN s
  ELSE LET s1 == [s EXCEPT !.pinned.todos = Append(@, TodoItem(text, FALSE))]
       IN Return(broadcastMemoryUpdate(schedulePinnedFlush(s1)),
                 <<"Added todo: ">> \o Quoted(text))

\* a delete that reports the bad index but still announces and schedules
doDeleteTodoAnnouncing(s, index) ==
  IF s.thrown THEN s
  ELSE IF index < 0 \/ index >= Len(s.pinned.todos)
  THEN Return(broadcastMemoryUpdate(schedulePinnedFlush(s)),
              InvalidIndex("todo", index, Len(s.pinned.todos), "todos"))
  ELSE LET removed == s.pinned.todos[index + 1]
           s1 == [s EXCEPT !.pinned.todos = RemoveAt(@, index)]
       IN Return(broadcastMemoryUpdate(schedulePinnedFlush(s1)),
                 <<"Deleted todo at index ", ToString(index), ": ">> \o Quoted(removed.text))

doDeleteTodo(s, index) ==
  IF s.thrown THEN s
  ELSE IF index < 0 \/ index >= Len(s.pinned.todos)
  THEN Return(s, InvalidIndex("todo", index, Len(s.pinned.todos), "todos"))
  ELSE LET removed == s.pinned.todos[index + 1]
           s1 == [s EXCEPT !.pinned.todos = RemoveAt(@, index)]
       IN Return(broadcastMemoryUpdate(schedulePinnedFlush(s1)),
                 <<"Deleted todo at index ", ToString(index), ": ">> \o Quoted(removed.text))

doToggleTodo(s, index) ==
  IF s.thrown THEN s
  ELSE IF index < 0 \/ index >= Len(s.pinned.todos)
  THEN Return(s, InvalidIndex("todo", index, Len(s.pinned.todos), "todos"))
  ELSE LET s1 == [s EXCEPT !.pinned.todos[index + 1].done = ~@]
           t == s1.pinned.todos[index + 1]
       IN Return(broadcastMemoryUpdate(schedulePinnedFlush(s1)),
                 <<"Todo ">> \o Quoted(t.text) \o
                 <<" marked as ", IF t.done THEN "complete" ELSE "incomplete">>)

\* The same three operations for an index that is no integer.  Such an index
\* is named by what JavaScript prints for it: "undefined" (the field is
\* missing), "abc" (a string that is no number), "NaN", "0.5".
\* index < 0 is false for each of them
JsLess0(v) == FALSE

\* index >= n for a length n: a comparison with undefined, with NaN or with a
\* string that is no number is false; 0.5 >= n holds for n = 0 only
JsAtLeast(v, n) == v = "0.5" /\ n = 0

\* the position Array.prototype.splice starts at: ToIntegerOrInfinity of
\* undefined, of NaN and of a string that is no number is 0, and 0.5 is cut to 0
SpliceStart(v) == 0

\* splice(index, 1)[0]: the element removed, none (<<>>) when the list is empty
Spliced(seq, v) ==
  IF SpliceStart(v) < Len(seq) THEN <<seq[SpliceStart(v) + 1]>> ELSE <<>>

\* Number(value) as executeToolCall applies it to the index of a tool call
ToNumber(v) == IF v = "abc" THEN "NaN" ELSE v

doDeleteMemoryOdd(s, v) ==
  IF s.thrown THEN s
  ELSE IF JsLess0(v) \/ JsAtLeast(v, Len(s.pinned.memories))
  THEN Return(s, <<"Invalid ", "memory", " index ", v, ". There are ",
                   ToString(Len(s.pinned.memories)), " ", "memories", " (0-indexed).">>)
  ELSE LET got == Spliced(s.pinned.memories, v)
           removed == IF got = <<>> THEN UndefinedText ELSE got[1]
           s1 == IF got = <<>> THEN s
                 ELSE [s EXCEPT !.pinned.memories = RemoveAt(@, SpliceStart(v))]
       IN Return(broadcastMemoryUpdate(schedulePinnedFlush(s1)),
                 <<"Deleted memory at index ", v, ": ">> \o Quoted(removed))

\* removed.text of an empty splice is a TypeError
doDeleteTodoOdd(s, v) ==
  IF s.thrown THEN s
  ELSE IF JsLess0(v) \/ JsAtLeast(v, Len(s.pinned.todos))
  THEN Return(s, <<"Invalid ", "todo", " index ", v, ". There are ",
                   ToString(Len(s.pinned.todos)), " ", "todos", " (0-indexed).">>)
  ELSE LET got == Spliced(s.pinned.todos, v)
       IN IF got = <<>>
          THEN Throw(s, <<"TypeError: Cannot read properties of undefined">>)
          ELSE LET s1 == [s EXCEPT !.pinned.todos = RemoveAt(@, SpliceStart(v))]
               IN Return(broadcastMemoryUpdate(schedulePinnedFlush(s1)),
                         <<"Deleted todo at index ", v, ": ">> \o Quoted(got[1].text))

\* this.pinned.todos[index] is undefined for a key that is no position, and
\* reading .done of it is a TypeError
doToggleTodoOdd(s, v) ==
  IF s.thrown THEN s
  ELSE IF JsLess0(v) \/ JsAtLeast(v, Len(s.pinned.todos))
  THEN Return(s, <<"Invalid ", "todo", " index ", v, ". There are ",
                   ToString(Len(s.pinned.todos)), " ", "todos", " (0-indexed).">>)
  ELSE Throw(s, <<"TypeError: Cannot read properties of undefined">>)

doClearMemories(s) ==
  IF s.thrown THEN s
  ELSE LET count == Len(s.pinned.memories)
       IN IF count = 0 THEN Return(s, <<"No memories to clear.">>)
          ELSE Return(broadcastMemoryUpdate(schedulePinnedFlush(
                        [s EXCEPT !.pinned.memories = <<>>])),
                      <<"Cleared all ", ToString(count), " memories.">>)

doClearTodos(s) ==
  IF s.thrown THEN s
  ELSE LET count == Len(s.pinned.todos)
       IN IF count = 0 THEN Return(s, <<"No todos to clear.">>)
          ELSE Return(broadcastMemoryUpdate(schedulePinnedFlush(
                        [s EXCEPT !.pinned.todos = <<>>])),
                      <<"Cleared all ", ToString(count), " todos.">>)

(***************************************************************************)
(* Artifacts                                                               *)
(***************************************************************************)
\* crypto.randomUUID(): a fresh id each time
UUID(n) == <<"uuid-" \o ToString(n)>>

\* String.prototype.toLowerCase, on the tokens the inputs use
LowerTok(tok) == IF tok = "Plan" THEN "plan" ELSE tok
ToLower(text) == [i \in 1..Len(text) |-> LowerTok(text[i])]

\* the entries of an artifact_list frame: the artifacts without their content
ArtifactIndex(as) ==
  [i \in 1..Len(as) |-> [id |-> as[i].id, type |-> as[i].type, title |-> as[i].title,
                         createdAt |-> as[i].createdAt, createdBy |-> as[i].createdBy]]

\* an addArtifact that leaves the store as it is
addArtifactUnsaved(s, title, artifactType, content, createdBy) ==
  IF s.thrown THEN s
  ELSE
    LET artifact == [id |-> UUID(s.nextId), type |-> artifactType, title |-> title,
                     content |-> content, createdAt |-> s.now, createdBy |-> createdBy]
        s1 == [s EXCEPT !.artifacts = Append(@, artifact), !.nextId = @ + 1]
    IN broadcast(s1, [type |-> "artifact_created", artifact |-> artifact])

addArtifact(s, title, artifactType, content, createdBy) ==
  IF s.thrown THEN s
  ELSE
    LET artifact == [id |-> UUID(s.nextId), type |-> artifactType, title |-> title,
                     content |-> content, createdAt |-> s.now, createdBy |-> createdBy]
        s1 == [s EXCEPT !.artifacts = Append(@, artifact), !.nextId = @ + 1]
        s2 == StoragePut(s1, [NoKeys EXCEPT !.artifacts = <<s1.artifacts>>])
    IN broadcast(s2, [type |-> "artifact_created", artifact |-> artifact])

doCreateArtifact(s, title, artifactType, content) ==
  Return(addArtifact(s, title, artifactType, content, "AI"),
         <<"Created artifact: ">> \o Quoted(title) \o <<" (type: ", artifactType, ")">>)

\* the artifacts a key matches: by id, or by title without regard to case
MatchesKey(a, id) == a.id = id \/ ToLower(a.title) = ToLower(id)

\* "<title>" (<id>), ... or none
RECURSIVE Available(_)
Available(as) ==
  IF as = <<>> THEN <<>>
  ELSE Quoted(as[1].title) \o <<" (">> \o as[1].id \o <<")">>
       \o (IF Len(as) > 1 THEN <<", ">> ELSE <<>>) \o Available(Tail(as))

doDeleteArtifact(s, id) ==
  IF s.thrown THEN s
  \* id.toLowerCase() of a value that is no string is a TypeError, raised
  \* when the first artifact whose id differs is compared
  ELSE IF id = UndefinedText /\ s.artifacts # <<>>
       THEN Throw(s, <<"TypeError: Cannot read properties of undefined">>)
  ELSE
    LET hits == {i \in 1..Len(s.artifacts) : MatchesKey(s.artifacts[i], id)}
    IN IF hits = {}
       THEN Return(s, <<"Artifact not found: ">> \o Quoted(id) \o <<". Available: ">>
                       \o (IF s.artifacts = <<>> THEN <<"none">> ELSE Available(s.artifacts)))
       ELSE
         LET artifact == s.artifacts[CHOOSE i \in hits : \A j \in hits : i <= j]
             keep == SelectSeq(s.artifacts, LAMBDA a : a.id # artifact.id)
             s1 == [s EXCEPT !.artifacts = keep]
             s2 == StoragePut(s1, [NoKeys EXCEPT !.artifacts = <<keep>>])
         IN Return(broadcast(s2, [type |-> "artifact_deleted", id |-> artifact.id]),
                   <<"Deleted artifact: ">> \o Quoted(artifact.title))

\* typeInstructions[artifactType] || typeInstructions.custom
buildArtifactPrompt(artifactType, title) ==
  CASE artifactType = "summary" -> <<"Create a concise summary of the recent discussion.">>
    [] artifactType = "plan" -> <<"Create an action plan based on the recent discussion.">>
    [] artifactType = "notes" -> <<"Create clean, organized notes from the recent discussion.">>
    [] OTHER -> IF title # <<>> THEN <<"Create content about: ">> \o title
                ELSE <<"Create useful content based on the recent discussion.">>

inferTitle(artifactType) ==
  CASE artifactType = "summary" -> <<"Summary - ", "<date>">>
    [] artifactType = "plan" -> <<"Action Plan - ", "<date>">>
    [] artifactType = "notes" -> <<"Notes - ", "<date>">>
    [] OTHER -> <<"Artifact - ", "<date>">>

(***************************************************************************)
(* formatPinnedMemory                                                      *)
(***************************************************************************)
\* a listing that counts from one
MemoryLineFromOne(m, i) == <<"[", ToString(i + 1), "] ">> \o m

MemoryLine(m, i) == <<"[", ToString(i), "] ">> \o m

TodoLine(t, i) ==
  <<"[", ToString(i), "] ", "[", IF t.done THEN "x" ELSE " ", "] ">> \o t.text

MemoryPart(ms) ==
  <<"Pinned Memories:", NL>> \o Join([i \in 1..Len(ms) |-> MemoryLine(ms[i], i - 1)], <<NL>>)

TodoPart(ts) ==
  <<"Todos:", NL>> \o Join([i \in 1..Len(ts) |-> TodoLine(ts[i], i - 1)], <<NL>>)

formatPinnedMemory(s) ==
  LET parts == (IF Len(s.pinned.memories) > 0 THEN <<MemoryPart(s.pinned.memories)>> ELSE <<>>)
               \o (IF Len(s.pinned.todos) > 0 THEN <<TodoPart(s.pinned.todos)>> ELSE <<>>)
  IN Join(parts, <<NL, NL>>)


(***************************************************************************)
(* AI tools                                                                *)
(***************************************************************************)
\* args.f ?? dflt
Arg(args, f, dflt) == IF f \in DOMAIN args THEN args[f] ELSE dflt

ToolNames == {"add_memory", "delete_memory", "add_todo", "delete_todo", "toggle_todo",
              "clear_memories", "clear_todos", "create_artifact", "delete_artifact"}

\* the arguments of a tool call hold an integer under index, or under odd
\* the name of an index that is no integer
OddArg(args) == "odd" \in DOMAIN args /\ "index" \notin DOMAIN args

\* the nine cases of the switch of lines 544-553
KnownTool(s, name, args) ==
  CASE name = "add_memory" -> doAddMemory(s, Arg(args, "text", <<>>))
    [] name = "delete_memory" ->
         IF OddArg(args) THEN doDeleteMemoryOdd(s, ToNumber(args.odd))
         ELSE doDeleteMemory(s, Arg(args, "index", -1))
    [] name = "add_todo" -> doAddTodo(s, Arg(args, "text", <<>>))
    [] name = "delete_todo" ->
         IF OddArg(args) THEN doDeleteTodoOdd(s, ToNumber(args.odd))
         ELSE doDeleteTodo(s, Arg(args, "index", -1))
    [] name = "toggle_todo" ->
         IF OddArg(args) THEN doToggleTodoOdd(s, ToNumber(args.odd))
         ELSE doToggleTodo(s, Arg(args, "index", -1))
    [] name = "clear_memories" -> doClearMemories(s)
    [] name = "clear_todos" -> doClearTodos(s)
    [] name = "create_artifact" ->
         doCreateArtifact(s, Arg(args, "title", <<"Untitled">>), Arg(args, "type", "notes"),
                          Arg(args, "content", <<>>))
    [] name = "delete_artifact" -> doDeleteArtifact(s, Arg(args, "id", <<>>))

\* a switch whose default throws
DispatchToolStrict(s, name, args) ==
  IF name \in ToolNames THEN KnownTool(s, name, args)
  ELSE Throw(s, <<"Error: Unknown tool: ", name>>)

\* the switch with its default
DispatchTool(s, name, args) ==
  IF name \in ToolNames THEN KnownTool(s, name, args)
  ELSE Return(s, <<"Unknown tool: ", name>>)

\* the try/catch of executeToolCall: an exception becomes the result
executeToolCall(s, name, args) ==
  IF s.thrown THEN s
  ELSE LET r == DispatchTool(s, name, args)
       IN IF r.thrown
          THEN [r EXCEPT !.thrown = FALSE, !.ret = <<"Tool error: ">> \o r.err]
          ELSE r

\* the loop of lines 635-641 over res.tool_calls; the results go to the
\* transcript.  JSON.parse of arguments given as an unparsable string throws
\* outside the try of executeToolCall.
RECURSIVE RunTools(_, _, _)
RunTools(s, tcs, results) ==
  IF s.thrown \/ tcs = <<>> THEN [state |-> s, results |-> results]
  ELSE LET call == Head(tcs)
       IN IF call.form = "badjson"
          THEN [state |-> Throw(s, <<"SyntaxError: Unexpected token">>), results |-> results]
          ELSE LET s1 == executeToolCall(s, call.name, call.arguments)
               IN RunTools(s1, Tail(tcs), Append(results, s1.ret))

(***************************************************************************)
(* AI turn                                                                 *)
(***************************************************************************)
\* a pending inference call: its turn (a chat reply or an artifact), which
\* of the two calls of callAI it is, whether the request carries the tool
\* schema, the pinned memory as its system prompt lists it, and the tool
\* results in its transcript
ChatCall(prompt) ==
  [kind |-> "chat", phase |-> 1, tools |-> TRUE, prompt |-> prompt, artifactType |-> "",
   title |-> <<>>, userName |-> "", memoryBlock |-> <<>>, results |-> <<>>]

ArtifactCall(prompt, artifactType, title, userName) ==
  [kind |-> "artifact", phase |-> 1, tools |-> TRUE, prompt |-> prompt,
   artifactType |-> artifactType, title |-> title, userName |-> userName,
   memoryBlock |-> <<>>, results |-> <<>>]

\* callAI up to its first await: the prompt is built, with the pinned memory
\* as it is now (line 584), and the call is issued
callAI(s, call) ==
  IF s.thrown THEN s
  ELSE [s EXCEPT !.calls = Append(@, [call EXCEPT !.memoryBlock = formatPinnedMemory(s)])]

\* a trigger without the single-flight guard
triggerAIUnguarded(s, userPrompt) ==
  IF s.thrown THEN s
  ELSE callAI(broadcastSystem([s EXCEPT !.aiRunning = TRUE], <<"AI is thinking...">>),
              ChatCall(userPrompt))

\* a trigger that turns a second turn away without telling anyone
triggerAISilent(s, userPrompt) ==
  IF s.thrown \/ s.aiRunning THEN s
  ELSE callAI(broadcastSystem([s EXCEPT !.aiRunning = TRUE], <<"AI is thinking...">>),
              ChatCall(userPrompt))

triggerAI(s, userPrompt) ==
  IF s.thrown THEN s
  ELSE IF s.aiRunning
  THEN broadcastSystem(s, <<"AI is already thinking... please wait.">>)
  ELSE callAI(broadcastSystem([s EXCEPT !.aiRunning = TRUE], <<"AI is thinking...">>),
              ChatCall(userPrompt))

\* a .then that puts the reply where the history stood when the turn began,
\* before the entries that came in since
OnFulfilledEarly(s, call, text) ==
  IF call.kind = "chat"
  THEN LET entry == [user |-> "AI", text |-> text, ts |-> s.now]
           s1 == [s EXCEPT !.history = <<entry>> \o @, !.sent = <<entry>> \o @,
                           !.stamped = TRUE]
           s2 == broadcast(maybeFlushHistory(s1),
                           [type |-> "chat", user |-> "AI", text |-> text, ts |-> entry.ts])
           s3 == StoragePut(s2, [NoKeys EXCEPT !.history = <<s2.history>>])
       IN IF s3.thrown THEN s3 ELSE [s3 EXCEPT !.historyDirty = 0]
  ELSE addArtifact(s, IF call.title # <<>> THEN call.title ELSE inferTitle(call.artifactType),
                   call.artifactType, text, call.userName)

\* a .then that leaves the reply to the next flush of the history
OnFulfilledUnsaved(s, call, text) ==
  IF call.kind = "chat"
  THEN broadcastChat(s, "AI", text)
  ELSE addArtifact(s, IF call.title # <<>> THEN call.title ELSE inferTitle(call.artifactType),
                   call.artifactType, text, call.userName)

\* .then of the chain of the turn
OnFulfilled(s, call, text) ==
  IF call.kind = "chat"
  THEN LET s1 == broadcastChat(s, "AI", text)
           s2 == StoragePut(s1, [NoKeys EXCEPT !.history = <<s1.history>>])
       IN IF s2.thrown THEN s2 ELSE [s2 EXCEPT !.historyDirty = 0]
  ELSE addArtifact(s, IF call.title # <<>> THEN call.title ELSE inferTitle(call.artifactType),
                   call.artifactType, text, call.userName)

\* a .catch that tells nobody
OnRejectedSilent(s) == [s EXCEPT !.thrown = FALSE]

\* .catch of the chain
OnRejected(s) ==
  broadcastSystem([s EXCEPT !.thrown = FALSE], <<"AI error: ">> \o s.err)

\* a chain that releases the flag at the end of .then and of .catch, with no
\* .finally: an exception in the handlers skips the release
SettleWithoutFinally(s, call) ==
  LET s1 == IF s.thrown THEN s ELSE OnFulfilled(s, call, s.ret)
      s2 == IF s1.thrown THEN OnRejected(s1) ELSE s1
  IN IF s2.thrown THEN s2 ELSE [s2 EXCEPT !.aiRunning = FALSE]

\* a chain whose reply, like a message of a user, is answered when the room
\* responds automatically
SettleResponding(s, call) ==
  LET s1 == IF s.thrown THEN s ELSE OnFulfilled(s, call, s.ret)
      s2 == IF s1.thrown THEN OnRejected(s1) ELSE s1
      s3 == [s2 EXCEPT !.aiRunning = FALSE]
  IN IF ~s3.thrown /\ ~s.thrown /\ call.kind = "chat" /\ s3.settings.aiAutoRespond
     THEN triggerAI(s3, <<"Respond to the latest message from AI">>)
     ELSE s3

\* .then(...).catch(...).finally(...) applied to a settled callAI
Settle(s, call) ==
  LET s1 == IF s.thrown THEN s ELSE OnFulfilled(s, call, s.ret)
      s2 == IF s1.thrown THEN OnRejected(s1) ELSE s1
  IN [s2 EXCEPT !.aiRunning = FALSE]

RemoveCall(s, i) == [s EXCEPT !.calls = RemoveAt(@, i - 1)]

\* the text a call returned, checked as on lines 627 and 647
FinalText(s, res, emptyError) ==
  IF "response" \in DOMAIN res /\ res.response # <<>>
  THEN Return(s, res.response) ELSE Throw(s, emptyError)

\* the memory that a system prompt lists under an index: <<text>>, or <<>>
ListedMemory(block, index) ==
  LET ks == {k \in 1..(Len(block) - 3) :
               /\ block[k] = "[" /\ block[k + 1] = ToString(index) /\ block[k + 2] = "] "
               /\ block[k + 3] # "["}
  IN IF ks = {} THEN <<>>
     ELSE LET k == CHOOSE x \in ks : \A y \in ks : x <= y
              ends == {j \in (k + 3)..(Len(block) + 1) : j = Len(block) + 1 \/ block[j] = NL}
              e == CHOOSE x \in ends : \A y \in ends : x <= y
          IN <<SubSeq(block, k + 3, e - 1)>>

\* the tool calls with the index of every delete_memory moved to where the
\* memory that the prompt listed under it stands now
RECURSIVE Relocated(_, _, _)
Relocated(tcs, block, memories) ==
  IF tcs = <<>> THEN <<>>
  ELSE LET tc == Head(tcs)
           listed == IF tc.name = "delete_memory" /\ "index" \in DOMAIN tc.arguments
                     THEN ListedMemory(block, tc.arguments.index) ELSE <<>>
           at == IF listed = <<>> THEN {}
                 ELSE {p \in 1..Len(memories) : memories[p] = listed[1]}
           tc1 == IF at = {} THEN tc
                  ELSE [tc EXCEPT !.arguments.index = (CHOOSE p \in at : TRUE) - 1]
       IN <<tc1>> \o Relocated(Tail(tcs), block, memories)

\* a continuation whose tools act on the memory the prompt showed the model
\* under the index, wherever it stands by now
AfterFirstCallAsListed(s, i, res) ==
  LET call == s.calls[i]
  IN IF res.throws THEN Settle(Throw(RemoveCall(s, i), <<"Error: inference failed">>), call)
     ELSE IF res.tool_calls = <<>>
     THEN Settle(FinalText(RemoveCall(s, i), res, <<"Error: Empty AI response">>), call)
     ELSE LET r == RunTools(s, Relocated(res.tool_calls, call.memoryBlock, s.pinned.memories),
                            <<>>)
          IN IF r.state.thrown THEN Settle(RemoveCall(r.state, i), call)
             ELSE [r.state EXCEPT !.calls[i].phase = 2, !.calls[i].tools = FALSE,
                                  !.calls[i].results = r.results]

\* the continuation of the first inference call, calls[i]
AfterFirstCall(s, i, res) ==
  LET call == s.calls[i]
  IN IF res.throws THEN Settle(Throw(RemoveCall(s, i), <<"Error: inference failed">>), call)
     ELSE IF res.tool_calls = <<>>
     THEN Settle(FinalText(RemoveCall(s, i), res, <<"Error: Empty AI response">>), call)
     ELSE LET r == RunTools(s, res.tool_calls, <<>>)
          IN IF r.state.thrown THEN Settle(RemoveCall(r.state, i), call)
             ELSE [r.state EXCEPT !.calls[i].phase = 2, !.calls[i].tools = FALSE,
                                  !.calls[i].results = r.results]

\* a continuation of the second call that runs the tools its response asks for
AfterSecondCallWithTools(s, i, res) ==
  LET call == s.calls[i]
  IN IF res.throws THEN Settle(Throw(RemoveCall(s, i), <<"Error: inference failed">>), call)
     ELSE LET r == RunTools(s, res.tool_calls, <<>>)
          IN Settle(FinalText(RemoveCall(r.state, i), res,
                              <<"Error: Empty AI response after tool calls">>), call)

\* the continuation of the second inference call
AfterSecondCall(s, i, res) ==
  LET call == s.calls[i]
  IN IF res.throws THEN Settle(Throw(RemoveCall(s, i), <<"Error: inference failed">>), call)
     ELSE Settle(FinalText(RemoveCall(s, i), res,
                           <<"Error: Empty AI response after tool calls">>), call)

(***************************************************************************)
(* webSocketMessage                                                        *)
(***************************************************************************)
Has(msg, f) == f \in DOMAIN msg

RECURSIVE SendEach(_, _, _)
SendEach(s, c, msgs) ==
  IF msgs = <<>> THEN s ELSE SendEach(Send(s, c, Head(msgs)), c, Tail(msgs))

ChatFrames(h) ==
  [i \in 1..Len(h) |-> [type |-> "chat", user |-> h[i].user, text |-> h[i].text,
                        ts |-> h[i].ts]]

\* a hello that sends the pinned snapshot before the history
onHelloPinnedFirst(s, c, msg) ==
  LET clientId == IF Has(msg, "clientId") THEN msg.clientId ELSE ""
      userName == IF Has(msg, "user") THEN msg.user ELSE "Anonymous"
      s1 == IF clientId # "" THEN [s EXCEPT !.userNames[c] = userName] ELSE s
      s2 == Send(s1, c, [type |-> "memory_update", pinned |-> s1.pinned])
      s3 == SendEach(s2, c, ChatFrames(s2.history))
      s4 == Send(s3, c, [type |-> "artifact_list", items |-> ArtifactIndex(s3.artifacts)])
  IN Send(s4, c, [type |-> "settings_update", settings |-> s4.settings])

onHello(s, c, msg) ==
  LET clientId == IF Has(msg, "clientId") THEN msg.clientId ELSE ""
      userName == IF Has(msg, "user") THEN msg.user ELSE "Anonymous"
      s1 == IF clientId # "" THEN [s EXCEPT !.userNames[c] = userName] ELSE s
      s2 == SendEach(s1, c, ChatFrames(s1.history))
      s3 == Send(s2, c, [type |-> "memory_update", pinned |-> s2.pinned])
      s4 == Send(s3, c, [type |-> "artifact_list", items |-> ArtifactIndex(s3.artifacts)])
  IN Send(s4, c, [type |-> "settings_update", settings |-> s4.settings])

onMemoryAdd(s, msg) ==
  LET kind == IF Has(msg, "kind") THEN msg.kind ELSE UndefinedName
      text == Trim(IF Has(msg, "text") THEN msg.text ELSE <<>>)
  IN IF text = <<>> \/ kind \notin {"memories", "todos"} THEN s
     ELSE IF kind = "todos" THEN doAddTodo(s, text) ELSE doAddMemory(s, text)

\* msg.index of a frame that holds no integer under index: what it holds
\* under odd, or undefined
OddIndex(msg) == IF Has(msg, "odd") THEN msg.odd ELSE "undefined"

onMemoryRemove(s, msg) ==
  LET kind == IF Has(msg, "kind") THEN msg.kind ELSE UndefinedName
  IN IF kind \notin {"memories", "todos"} THEN s
     ELSE IF Has(msg, "index")
     THEN IF kind = "todos" THEN doDeleteTodo(s, msg.index) ELSE doDeleteMemory(s, msg.index)
     ELSE IF kind = "todos" THEN doDeleteTodoOdd(s, OddIndex(msg))
          ELSE doDeleteMemoryOdd(s, OddIndex(msg))

onMemoryToggle(s, msg) ==
  IF Has(msg, "index") THEN doToggleTodo(s, msg.index)
  ELSE doToggleTodoOdd(s, OddIndex(msg))

onSettingsUpdate(s, msg) ==
  IF ~Has(msg, "settings")
  THEN Throw(s, <<"TypeError: Cannot read properties of undefined">>)
  ELSE
    LET updates == msg.settings
        s1 == IF Has(updates, "systemPrompt")
              THEN [s EXCEPT !.settings.systemPrompt = updates.systemPrompt] ELSE s
        s2 == IF Has(updates, "aiAutoRespond")
              THEN [s1 EXCEPT !.settings.aiAutoRespond = updates.aiAutoRespond] ELSE s1
        s3 == StoragePut(s2, [NoKeys EXCEPT !.settings = <<s2.settings>>])
    IN broadcast(s3, [type |-> "settings_update", settings |-> s3.settings])

\* a create that starts a turn whether or not one is in flight
onArtifactCreateUnguarded(s, c, msg) ==
  LET mode == IF Has(msg, "mode") THEN msg.mode ELSE UndefinedName
      artifactType == IF Has(msg, "artifactType") /\ msg.artifactType # ""
                      THEN msg.artifactType ELSE "notes"
      title == IF Has(msg, "title") THEN msg.title ELSE <<>>
      content == IF Has(msg, "content") THEN msg.content ELSE <<>>
      userName == IF Has(msg, "user") /\ msg.user # "" THEN msg.user
                  ELSE IF s.userNames[c] # "" THEN s.userNames[c] ELSE "Unknown"
  IN IF mode = "ai"
     THEN callAI(broadcastSystem([s EXCEPT !.aiRunning = TRUE],
                                 <<"AI is generating artifact...">>),
                 ArtifactCall(buildArtifactPrompt(artifactType, title),
                              artifactType, title, userName))
     ELSE addArtifact(s, IF title # <<>> THEN title ELSE <<"Untitled">>,
                      artifactType, content, userName)

onArtifactCreate(s, c, msg) ==
  LET mode == IF Has(msg, "mode") THEN msg.mode ELSE UndefinedName
      artifactType == IF Has(msg, "artifactType") /\ msg.artifactType # ""
                      THEN msg.artifactType ELSE "notes"
      title == IF Has(msg, "title") THEN msg.title ELSE <<>>
      content == IF Has(msg, "content") THEN msg.content ELSE <<>>
      userName == IF Has(msg, "user") /\ msg.user # "" THEN msg.user
                  ELSE IF s.userNames[c] # "" THEN s.userNames[c] ELSE "Unknown"
  IN IF mode = "ai"
     THEN IF s.aiRunning
          THEN Send(s, c, [type |-> "chat", user |-> "System",
                           text |-> <<"AI is busy, try again shortly.">>, ts |-> s.now])
          ELSE callAI(broadcastSystem([s EXCEPT !.aiRunning = TRUE],
                                      <<"AI is generating artifact...">>),
                      ArtifactCall(buildArtifactPrompt(artifactType, title),
                                   artifactType, title, userName))
     ELSE addArtifact(s, IF title # <<>> THEN title ELSE <<"Untitled">>,
                      artifactType, content, userName)

onArtifactDelete(s, msg) ==
  doDeleteArtifact(s, IF Has(msg, "id") THEN msg.id ELSE UndefinedText)

\* a get that sends the artifact to every open connection
onArtifactGetToAll(s, c, msg) ==
  LET id == IF Has(msg, "id") THEN msg.id ELSE UndefinedText
      hits == {i \in 1..Len(s.artifacts) : s.artifacts[i].id = id}
  IN IF hits = {} THEN s
     ELSE broadcast(s, [type |-> "artifact_detail",
                        artifact |-> s.artifacts[CHOOSE i \in hits : \A j \in hits : i <= j]])

onArtifactGet(s, c, msg) ==
  LET id == IF Has(msg, "id") THEN msg.id ELSE UndefinedText
      hits == {i \in 1..Len(s.artifacts) : s.artifacts[i].id = id}
  IN IF hits = {} THEN s
     ELSE Send(s, c, [type |-> "artifact_detail",
                      artifact |-> s.artifacts[CHOOSE i \in hits : \A j \in hits : i <= j]])

onArtifactList(s, c) ==
  Send(s, c, [type |-> "artifact_list", items |-> ArtifactIndex(s.artifacts)])

NameLen(u) == IF u = "<65 chars>" THEN MAX_USER_LEN + 1 ELSE Len(u)

\* a reset that tells the clients before it writes the store
onResetLateWrite(s, user) ==
  IF s.thrown THEN s
  ELSE
    LET s1 == [s EXCEPT !.pinned = EmptyPinned, !.history = <<>>, !.artifacts = <<>>,
                        !.settings = DEFAULT_SETTINGS, !.sent = <<>>]
        s3 == broadcastMemoryUpdate(s1)
        s4 == broadcast(s3, [type |-> "artifact_list", items |-> <<>>])
        s5 == broadcast(s4, [type |-> "settings_update", settings |-> s4.settings])
        s6 == broadcast(s5, [type |-> "clear_chat"])
        s7 == StoragePut(s6, [pinned |-> <<s1.pinned>>, history |-> <<s1.history>>,
                              artifacts |-> <<s1.artifacts>>, settings |-> <<s1.settings>>])
    IN broadcastSystem(s7, <<"Room has been reset by ", user, ".">>)

\* the /reset branch, lines 252-261
onReset(s, user) ==
  IF s.thrown THEN s
  ELSE
    LET s1 == [s EXCEPT !.pinned = EmptyPinned, !.history = <<>>, !.artifacts = <<>>,
                        !.settings = DEFAULT_SETTINGS, !.sent = <<>>]
        s2 == StoragePut(s1, [pinned |-> <<s1.pinned>>, history |-> <<s1.history>>,
                              artifacts |-> <<s1.artifacts>>, settings |-> <<s1.settings>>])
        s3 == broadcastMemoryUpdate(s2)
        s4 == broadcast(s3, [type |-> "artifact_list", items |-> <<>>])
        s5 == broadcast(s4, [type |-> "settings_update", settings |-> s4.settings])
        s6 == broadcast(s5, [type |-> "clear_chat"])
    IN broadcastSystem(s6, <<"Room has been reset by ", user, ".">>)

\* the commands of lines 240-269, after the raw text was broadcast
onCommand(s, user, text) ==
  IF s.thrown THEN s
  ELSE IF StartsWith(text, <<"/remember", Space>>)
  THEN LET mem == Trim(SliceFrom(text, <<"/remember", Space>>))
       IN IF mem # <<>> THEN doAddMemory(s, mem) ELSE s
  ELSE IF StartsWith(text, <<"/todo", Space>>)
  THEN LET t == Trim(SliceFrom(text, <<"/todo", Space>>))
       IN IF t # <<>> THEN doAddTodo(s, t) ELSE s
  ELSE IF text = <<"/memory">>
  THEN LET m == formatPinnedMemory(s)
       IN broadcastSystem(s, IF m # <<>> THEN m ELSE <<"No pinned memory yet.">>)
  ELSE IF text = <<"/export">>
  THEN broadcast(s, [type |-> "export",
                     data |-> [pinned |-> s.pinned, history |-> s.history,
                               artifacts |-> s.artifacts]])
  ELSE IF text = <<"/reset">> THEN onReset(s, user)
  ELSE IF text = <<"/summarize">>
  THEN triggerAI(s, <<"Summarize the recent discussion concisely.">>)
  ELSE IF StartsWith(text, <<"@ai", Space>>)
  THEN LET q == Trim(SliceFrom(text, <<"@ai", Space>>))
       IN IF q # <<>> THEN triggerAI(s, q) ELSE s
  ELSE IF s.settings.aiAutoRespond /\ ~StartsWithSlash(text)
  THEN triggerAI(s, <<"Respond to the latest message from ", user, ": ">> \o Quoted(text))
  ELSE s

\* checks that let a user and a text of any length pass
ValidChatAnyLength(msg) ==
  /\ msg.type = "chat"
  /\ Has(msg, "user") /\ NameLen(msg.user) # 0
  /\ Has(msg, "text") /\ TextLen(msg.text) # 0

\* whether a frame passes the checks of lines 231-233
ValidChat(msg) ==
  /\ msg.type = "chat"
  /\ Has(msg, "user") /\ NameLen(msg.user) # 0 /\ NameLen(msg.user) <= MAX_USER_LEN
  /\ Has(msg, "text") /\ TextLen(msg.text) # 0 /\ TextLen(msg.text) <= MAX_TEXT_LEN

\* a handler that runs the command before it sends the chat message
onChatCommandFirst(s, msg) ==
  IF ~ValidChat(msg) THEN s
  ELSE LET text == Trim(msg.text)
       IN broadcastChat(onCommand(s, msg.user, text), msg.user, text)

onChat(s, msg) ==
  IF ~ValidChat(msg) THEN s
  ELSE LET text == Trim(msg.text)
       IN onCommand(broadcastChat(s, msg.user, text), msg.user, text)

\* a frame that is not a string or not JSON has one of these types
Unparsed == {"<binary>", "<unparsable>"}

\* lines 124-269: the handler after ensureLoaded
Dispatch(s1, c, msg) ==
       CASE msg.type = "hello" -> onHello(s1, c, msg)
         [] msg.type = "memory.add" -> onMemoryAdd(s1, msg)
         [] msg.type = "memory.remove" -> onMemoryRemove(s1, msg)
         [] msg.type = "memory.toggle" -> onMemoryToggle(s1, msg)
         [] msg.type = "settings.update" -> onSettingsUpdate(s1, msg)
         [] msg.type = "artifact.create" -> onArtifactCreate(s1, c, msg)
         [] msg.type = "artifact.delete" -> onArtifactDelete(s1, msg)
         [] msg.type = "artifact.get" -> onArtifactGet(s1, c, msg)
         [] msg.type = "artifact.list" -> onArtifactList(s1, c)
         [] OTHER -> onChat(s1, msg)

\* a handler that loads the state before it looks at the type
webSocketMessageLoadingFirst(s0, c, msg) ==
  IF msg.type \in Unparsed THEN s0
  ELSE
  LET s == ensureLoaded([s0 EXCEPT !.lastSeen[c] = <<s0.clock>>]) IN
  IF msg.type = "ping" THEN Send(s, c, [type |-> "pong"])
  ELSE Dispatch(s, c, msg)

webSocketMessage(s0, c, msg) ==
  IF msg.type \in Unparsed THEN s0
  ELSE
  LET s == [s0 EXCEPT !.lastSeen[c] = <<s0.clock>>] IN
  IF msg.type = "ping" THEN Send(s, c, [type |-> "pong"])
  ELSE Dispatch(ensureLoaded(s), c, msg)


(***************************************************************************)
(* Inputs                                                                  *)
(***************************************************************************)
UserOf(c) == IF c = 1 THEN "ann" ELSE "bob"

\* the state of a newly constructed actor (the field initialisers): the
\* accepted sockets and the store outlive the old one, the pending promises
\* and the timer do not
Dropped(s) ==
  [s EXCEPT !.userNames = [c \in Conns |-> ""], !.history = <<>>, !.pinned = EmptyPinned,
            !.artifacts = <<>>, !.settings = DEFAULT_SETTINGS, !.aiRunning = FALSE,
            !.loaded = FALSE, !.historyDirty = 0, !.pinnedFlushTimer = FALSE,
            !.calls = <<>>, !.sent = <<>>, !.lastSeen = [c \in Conns |-> <<>>],
            !.heartbeatAlarm = FALSE, !.timers = 0]

HelloInputs(c) ==
  {[type |-> "hello", clientId |-> "client-" \o ToString(c), user |-> UserOf(c)]}

\* the indexes the frames carry: before, in and past the lists
Indexes == {-1, 0, 2}

MemoryAddInputs ==
  {[type |-> "memory.add", kind |-> k, text |-> <<"y", Space>>] : k \in {"memories", "todos"}}

MemoryRemoveInputs ==
  {[type |-> "memory.remove", kind |-> k, index |-> i] :
     k \in {"memories", "todos"}, i \in Indexes}

MemoryToggleInputs == {[type |-> "memory.toggle", index |-> i] : i \in Indexes}

AutoRespondOn == [type |-> "settings.update", settings |-> [aiAutoRespond |-> TRUE]]
PromptChange == [type |-> "settings.update", settings |-> [systemPrompt |-> <<"Be terse.">>]]

ManualArtifact(c) ==
  [type |-> "artifact.create", mode |-> "manual", artifactType |-> "plan",
   title |-> <<"Plan">>, content |-> <<"body">>, user |-> UserOf(c)]

AIArtifact == [type |-> "artifact.create", mode |-> "ai", artifactType |-> "summary"]

\* deletions by id, by title in another case, and of nothing that exists
ArtifactDeleteInputs ==
  {[type |-> "artifact.delete", id |-> k] : k \in {UUID(1), <<"plan">>, <<"nope">>}}

\* a settings.update that names no setting
NoChange == [type |-> "settings.update", settings |-> [other |-> 0]]

\* the artifact tools as a turn may call them
CreateTool ==
  [name |-> "create_artifact", form |-> "object",
   arguments |-> [title |-> <<"Plan">>, type |-> "plan", content |-> <<"body">>]]
DeleteTool ==
  [name |-> "delete_artifact", form |-> "object", arguments |-> [id |-> <<"plan">>]]

\* chat frames that fail a check, and frames of no known type
BadFrames(c) ==
  { [type |-> "chat", text |-> <<"hi">>],
    [type |-> "chat", user |-> "", text |-> <<"hi">>],
    [type |-> "chat", user |-> "<65 chars>", text |-> <<"hi">>],
    [type |-> "chat", user |-> UserOf(c)],
    [type |-> "chat", user |-> UserOf(c), text |-> <<>>],
    [type |-> "chat", user |-> UserOf(c), text |-> <<LongTok>>],
    [type |-> "chat", user |-> UserOf(c), text |-> <<"/reset", Space, LongTok>>],
    [type |-> "shout", user |-> UserOf(c), text |-> <<"/reset">>],
    [type |-> UndefinedName, user |-> UserOf(c), text |-> <<"@ai", Space, "q">>] }

\* chat texts: plain, blank, and the commands
Hi == <<"hi">>
Blank == <<Space>>
Remember == <<"/remember", Space, "x">>
Todo == <<"/todo", Space, "t">>
Memory == <<Space, "/memory", Space>>
Export == <<"/export">>
Reset == <<"/reset">>
Summarize == <<"/summarize">>
AskAI == <<"@ai", Space, "q">>

\* what an inference call may deliver
TextResult(text) == [throws |-> FALSE, tool_calls |-> <<>>, response |-> text]
Failure == [throws |-> TRUE, tool_calls |-> <<>>]
NoText == [throws |-> FALSE, tool_calls |-> <<>>]
ToolResult(tcs) == [throws |-> FALSE, tool_calls |-> tcs]

PlainResults == {TextResult(<<"reply">>), Failure, NoText}

ToolCall(name, args) == [name |-> name, form |-> "object", arguments |-> args]

\* the index tools, past the lists, in them, and without the index
IndexToolCalls ==
  {ToolCall(n, [index |-> 2]) : n \in {"delete_memory", "delete_todo", "toggle_todo"}}
  \cup {ToolCall("delete_memory", [index |-> 0]), ToolCall("toggle_todo", [x |-> 0])}

\* index edits whose index is missing, a string that is no number, or 0.5
OddRemoveInputs ==
  {[type |-> "memory.remove", kind |-> k] : k \in {"memories", "todos"}}
  \cup {[type |-> "memory.remove", kind |-> k, odd |-> v] :
          k \in {"memories", "todos"}, v \in {"abc", "0.5"}}

OddToggleInputs ==
  {[type |-> "memory.toggle"]}
  \cup {[type |-> "memory.toggle", odd |-> v] : v \in {"abc", "0.5"}}

OddToolCalls ==
  {ToolCall(n, [odd |-> v]) :
     n \in {"delete_memory", "delete_todo", "toggle_todo"}, v \in {"abc", "0.5"}}

\* a response that holds a text and asks for tools as well
ToolsAndText(tcs, text) == [throws |-> FALSE, tool_calls |-> tcs, response |-> text]

\* a tool the room does not have
UnknownTool == ToolCall("fly", [x |-> 0])

\* a stored history of k old entries
OldHistory(k) == [i \in 1..k |-> [user |-> "ann", text |-> <<"old">>, ts |-> i - k]]

\* what the store may hold when the actor is constructed: nothing, or what an
\* earlier activation (or an earlier version, with todos as plain strings) left
InitStores ==
  { NoKeys,
    [NoKeys EXCEPT
       !.pinned = <<[memories |-> << <<"m">> >>,
                     todos |-> <<LegacyTodo(<<"a">>), LegacyTodo(<<"b">>)>>]>>,
       !.history = <<OldHistory(MAX_HISTORY - 1)>>] }

(***************************************************************************)
(* The environment offers an input only while the model's bounds allow it  *)
(***************************************************************************)
Hydrated == ensureLoaded(Cur)

PendingArtifacts == Len(SelectSeq(calls, LAMBDA k : k.kind = "artifact"))

RoomForMemory == Len(Hydrated.pinned.memories) < MaxMem
RoomForTodo == Len(Hydrated.pinned.todos) < MaxTodos
RoomForArtifact == Len(Hydrated.artifacts) + PendingArtifacts < MaxArtifacts

OfferedChat(text) ==
  /\ now <= MaxNow
  /\ StartsWith(Trim(text), <<"/remember", Space>>) => RoomForMemory
  /\ StartsWith(Trim(text), <<"/todo", Space>>) => RoomForTodo

OfferedTools(tcs) ==
  \A i \in 1..Len(tcs) :
     /\ tcs[i].name = "add_memory" => RoomForMemory
     /\ tcs[i].name = "add_todo" => RoomForTodo
     /\ tcs[i].name = "create_artifact" => RoomForArtifact

(***************************************************************************)
(* Actions                                                                 *)
(***************************************************************************)
\* the state after construction, over a store that holds one of stores
InitIn(stores) ==
  /\ conns = {}
  /\ broken = {}
  /\ userNames = [c \in Conns |-> ""]
  /\ history = <<>>
  /\ pinned = EmptyPinned
  /\ artifacts = <<>>
  /\ settings = DEFAULT_SETTINGS
  /\ aiRunning = FALSE
  /\ loaded = FALSE
  /\ historyDirty = 0
  /\ pinnedFlushTimer = FALSE
  /\ store \in stores
  /\ calls = <<>>
  /\ now = 1
  /\ nextId = 1
  /\ out = <<>>
  /\ ret = <<>>
  /\ threw = FALSE
  /\ last = [act |-> "init"]
  /\ sent = <<>>
  /\ lastSeen = [c \in Conns |-> <<>>]
  /\ heartbeatAlarm = FALSE
  /\ alarmAt = <<>>
  /\ clock = Started
  /\ heard = [c \in Conns |-> <<>>]
  /\ timers = 0
  /\ pending = <<>>
  /\ held = <<>>

Init == InitIn(InitStores)

\* ctx.storage.setAlarm
SetAlarm(s, t) ==
  IF s.thrown THEN s
  ELSE [s EXCEPT !.alarmAt = <<t>>, !.out = Append(@, [ev |-> "setAlarm", at |-> t])]

ensureHeartbeatAlarm(s) ==
  IF s.thrown \/ s.heartbeatAlarm THEN s
  ELSE LET s1 == IF s.alarmAt = <<>>
                 THEN SetAlarm(s, s.clock + HEARTBEAT_INTERVAL_MS) ELSE s
       IN [s1 EXCEPT !.heartbeatAlarm = TRUE]

\* fetch: a client connects
Connect(c) ==
  /\ c \notin conns
  /\ LET s1 == ensureLoaded(Cur)
         s2 == [s1 EXCEPT !.conns = @ \cup {c}, !.lastSeen[c] = <<s1.clock>>,
                          !.heard[c] = <<s1.clock>>]
     IN Commit(broadcastPresence(ensureHeartbeatAlarm(s2)),
               [act |-> "connect", conn |-> c])

\* a cleanup that gives up the turn in flight as well
cleanupCancelling(s, c) ==
  [s EXCEPT !.userNames[c] = "", !.lastSeen[c] = <<>>, !.conns = @ \ {c},
            !.broken = @ \ {c}, !.heard[c] = <<>>, !.calls = <<>>, !.aiRunning = FALSE]

\* cleanup(ws); the socket is closed, so nothing is heard from it any more
cleanup(s, c) ==
  [s EXCEPT !.userNames[c] = "", !.lastSeen[c] = <<>>, !.conns = @ \ {c},
            !.broken = @ \ {c}, !.heard[c] = <<>>]

\* a close that tells the clients before it forgets the socket
CloseAnnouncingFirst(c) ==
  /\ c \in conns
  /\ Commit(cleanup(broadcastPresence(Cur), c), [act |-> "close", conn |-> c])

\* webSocketClose
Close(c) ==
  /\ c \in conns
  /\ Commit(broadcastPresence(cleanup(Cur, c)), [act |-> "close", conn |-> c])

\* webSocketError
Error(c) ==
  /\ c \in conns
  /\ Commit(broadcastPresence(cleanup(Cur, c)), [act |-> "error", conn |-> c])

\* this.lastSeen.get(ws) ?? 0
LastSeenOr0(s, c) == IF s.lastSeen[c] = <<>> THEN 0 ELSE s.lastSeen[c][1]

\* the loop of lines 290-298 over the open sockets cs
RECURSIVE Scan(_, _)
Scan(s, cs) ==
  IF cs = <<>> THEN s
  ELSE LET c == Head(cs)
           s1 == IF s.clock - LastSeenOr0(s, c) > STALE_TIMEOUT_MS
                 THEN cleanup(s, c) ELSE s
       IN Scan(s1, Tail(cs))

\* lines 288-300; culled > 0 exactly when the scan closed a socket
ScanAndRearm(s) ==
  LET s1 == Scan(s, getOpenSockets(s))
      s2 == IF s1.conns # s.conns THEN broadcastPresence(s1) ELSE s1
  IN IF s2.conns # {} THEN ensureHeartbeatAlarm(s2) ELSE s2

\* an alarm handler that leaves the flag of line 287 as it is
alarmKeepingFlag(s) == ScanAndRearm(s)

alarm(s) == ScanAndRearm([s EXCEPT !.heartbeatAlarm = FALSE])

\* the stored alarm is due: the platform removes it and runs alarm()
Alarm ==
  /\ alarmAt # <<>>
  /\ clock >= alarmAt[1]
  /\ Commit(alarm([Cur EXCEPT !.alarmAt = <<>>]), [act |-> "alarm"])

\* time passes
Tick ==
  /\ clock < Started + MaxTicks * TickMs
  /\ Commit([Cur EXCEPT !.clock = @ + TickMs], [act |-> "tick"])

\* webSocketMessage for one frame of an open connection
Receive(c, msg) ==
  /\ c \in conns
  /\ Commit(webSocketMessage([Cur EXCEPT !.heard[c] = <<clock>>], c, msg),
            [act |-> "frame", conn |-> c, msg |-> msg])

Ping(c) == Receive(c, [type |-> "ping"])

Hello(c) == \E msg \in HelloInputs(c) : Receive(c, msg)

MemoryAdd(c) ==
  \E msg \in MemoryAddInputs :
     /\ IF msg.kind = "todos" THEN RoomForTodo ELSE RoomForMemory
     /\ Receive(c, msg)

MemoryRemove(c) == \E msg \in MemoryRemoveInputs : Receive(c, msg)

MemoryToggle(c) == \E msg \in MemoryToggleInputs : Receive(c, msg)

SettingsUpdate(c, inputs) == \E msg \in inputs : Receive(c, msg)

ArtifactCreate(c, inputs) == \E msg \in inputs : RoomForArtifact /\ Receive(c, msg)

BadFrame(c) == \E msg \in BadFrames(c) : Receive(c, msg)

ArtifactDelete(c) == \E msg \in ArtifactDeleteInputs : Receive(c, msg)

\* chat frames in a longer row
Burst(c, texts) ==
  \E t \in texts :
     /\ now <= MaxBurst
     /\ Receive(c, [type |-> "chat", user |-> UserOf(c), text |-> t])

Chat(c, texts) ==
  \E t \in texts :
     /\ OfferedChat(t)
     /\ Receive(c, [type |-> "chat", user |-> UserOf(c), text |-> t])

\* the setTimeout callback of schedulePinnedFlush
PinnedFlush ==
  /\ timers > 0
  /\ Commit(StoragePut([Cur EXCEPT !.pinnedFlushTimer = FALSE, !.timers = @ - 1],
                       [NoKeys EXCEPT !.pinned = <<pinned>>]),
            [act |-> "flush"])

\* The hydration read in steps.  A handler that finds the state not loaded
\* sets loaded (line 71) and waits for the read (line 72); until the read
\* returns the input gate delivers no other event, and the frames that
\* arrive are held and delivered afterwards, in order.
\* a gate that holds nothing back
GateAlwaysOpen == TRUE

GateOpen == pending = <<>>

\* whether the handler of msg reaches ensureLoaded
NeedsState(msg) == msg.type \notin Unparsed /\ msg.type # "ping"

\* webSocketMessage from its start to its return or to the await of line 72
Deliver(s, c, msg, label) ==
  IF NeedsState(msg) /\ ~s.loaded
  THEN Commit([s EXCEPT !.lastSeen[c] = <<s.clock>>, !.loaded = TRUE,
                        !.pending = <<[conn |-> c, msg |-> msg, map |-> s.store]>>],
              [act |-> "await", conn |-> c, msg |-> msg])
  ELSE Commit(webSocketMessage(s, c, msg), label)

\* a frame arrives at the actor
Arrive(c, msg) ==
  /\ c \in conns
  /\ IF GateOpen /\ held = <<>>
     THEN Deliver([Cur EXCEPT !.heard[c] = <<clock>>], c, msg,
                  [act |-> "frame", conn |-> c, msg |-> msg])
     ELSE /\ Len(held) < MaxHeld
          /\ Commit([Cur EXCEPT !.heard[c] = <<clock>>,
                                !.held = Append(@, [conn |-> c, msg |-> msg])],
                    [act |-> "hold", conn |-> c, msg |-> msg])

\* the read of line 72 returns and the handler runs to its end
HydrationReturns ==
  /\ pending # <<>>
  /\ LET p == pending[1]
     IN Commit(Dispatch(HydrateFrom([Cur EXCEPT !.pending = <<>>], p.map), p.conn, p.msg),
               [act |-> "frame", conn |-> p.conn, msg |-> p.msg])

\* the gate delivers the oldest frame it holds
Release ==
  /\ GateOpen
  /\ held # <<>>
  /\ LET f == Head(held)
     IN Deliver([Cur EXCEPT !.held = Tail(@)], f.conn, f.msg,
                [act |-> "frame", conn |-> f.conn, msg |-> f.msg, gated |-> TRUE])

\* the first inference call of calls[i] returns or throws
FirstCallReturns(i, results) ==
  /\ i \in 1..Len(calls)
  /\ calls[i].phase = 1
  /\ \E res \in results :
       /\ OfferedTools(res.tool_calls)
       /\ Commit(AfterFirstCall(Cur, i, res),
                 [act |-> "ai", call |-> calls[i], res |-> res])

\* the second inference call of calls[i] returns or throws
SecondCallReturns(i, results) ==
  /\ i \in 1..Len(calls)
  /\ calls[i].phase = 2
  /\ \E res \in results :
       Commit(AfterSecondCall(Cur, i, res),
              [act |-> "ai", call |-> calls[i], res |-> res])

\* the actor is dropped from memory; the next event constructs it anew
Evict ==
  /\ loaded \/ heartbeatAlarm \/ \E c \in Conns : lastSeen[c] # <<>>
  /\ pending = <<>>
  /\ Commit(Dropped(Cur), [act |-> "evict"])

\* a socket's peer goes away unnoticed: the socket stays open, sends throw
BreakConn(c) ==
  /\ c \in conns \ broken
  /\ broken' = broken \cup {c}
  /\ last' = [act |-> "break", conn |-> c]
  /\ out' = <<>>
  /\ ret' = <<>>
  /\ threw' = FALSE
  /\ UNCHANGED <<conns, userNames, history, pinned, artifacts, settings, aiRunning,
                 loaded, historyDirty, pinnedFlushTimer, store, calls, now, nextId, sent,
                 lastSeen, heartbeatAlarm, alarmAt, clock, heard, timers, pending, held>>

(***************************************************************************)
(* Specifications.  The room's state space is the product of what each of  *)
(* its parts can hold, so each specification drives one part of the room   *)
(* with the inputs that matter to it.  No send fails except in FaultSpec.  *)
(***************************************************************************)
\* the first connection sends the commands, the others plain chat
ChatTexts(c) == IF c = 1 THEN {Hi, Remember, Memory, Reset, AskAI} ELSE {Hi}

\* chat, commands and the room state they change
Next ==
  \/ \E c \in Conns : Connect(c)
  \/ \E c \in Conns : Close(c)
  \/ \E c \in Conns : Hello(c)
  \/ \E c \in Conns : Chat(c, ChatTexts(c))
  \/ \E c \in Conns : ArtifactCreate(c, {ManualArtifact(c)})
  \/ \E c \in Conns : SettingsUpdate(c, {PromptChange})
  \/ PinnedFlush
  \/ \E i \in 1..Len(calls) : FirstCallReturns(i, {TextResult(<<"reply">>)})
  \/ Evict

Spec == Init /\ [][Next]_vars

\* pinned memory edited by index, by the frames and by the tools of a turn
MemNext ==
  \/ Connect(1)
  \/ MemoryRemove(1)
  \/ MemoryToggle(1)
  \/ Chat(1, {AskAI})
  \/ \E i \in 1..Len(calls) : FirstCallReturns(i, {ToolResult(<<tc>>) : tc \in IndexToolCalls})
  \/ \E i \in 1..Len(calls) : SecondCallReturns(i, {TextResult(<<"done">>)})

MemSpec == Init /\ [][MemNext]_vars

\* pinned memory, its flush to the store and its hydration from it
PersistNext ==
  \/ Connect(1)
  \/ MemoryAdd(1)
  \/ MemoryRemove(1)
  \/ MemoryToggle(1)
  \/ PinnedFlush
  \/ Evict

PersistSpec == Init /\ [][PersistNext]_vars

\* the AI turn: every trigger, and every way an inference call can end
AITexts == {AskAI, Summarize, Hi}

BadJson == [name |-> "add_memory", form |-> "badjson", arguments |-> [x |-> 0]]

FirstResults == PlainResults \cup {ToolResult(<<ToolCall("clear_todos", [x |-> 0])>>),
                                   ToolResult(<<BadJson>>)}

AITurn ==
  \/ \E i \in 1..Len(calls) : FirstCallReturns(i, FirstResults)
  \/ \E i \in 1..Len(calls) : SecondCallReturns(i, PlainResults)

AINext ==
  \/ \E c \in Conns : Connect(c)
  \/ Chat(1, AITexts)
  \/ SettingsUpdate(1, {AutoRespondOn})
  \/ ArtifactCreate(1, {AIArtifact})
  \/ AITurn
  \/ Evict

AISpec == Init /\ [][AINext]_vars

\* the same room where an inference call returns or throws in the end; the
\* triggers are the mention and the automatic response
AIFairNext ==
  \/ \E c \in Conns : Connect(c)
  \/ Chat(1, {AskAI, Hi})
  \/ SettingsUpdate(1, {AutoRespondOn})
  \/ ArtifactCreate(1, {AIArtifact})
  \/ AITurn
  \/ Evict

AIFairSpec == Init /\ [][AIFairNext]_vars /\ WF_vars(AITurn)

\* the same turns in a room where a socket's send may throw
FaultNext ==
  \/ \E c \in Conns : Connect(c)
  \/ \E c \in Conns : Close(c)
  \/ Chat(1, {AskAI})
  \/ ArtifactCreate(1, {AIArtifact})
  \/ AITurn
  \/ \E c \in Conns : BreakConn(c)

FaultSpec == Init /\ [][FaultNext]_vars

FaultFairSpec == FaultSpec /\ WF_vars(AITurn)

\* every command of the chat path, among two clients that come and go
OrderTexts(c) == IF c = 1 THEN {Remember, Todo, Memory, Export, Reset, AskAI} ELSE {Hi}

OrderNext ==
  \/ \E c \in Conns : Connect(c)
  \/ \E c \in Conns : Close(c)
  \/ \E c \in Conns : Hello(c)
  \/ \E c \in Conns : Chat(c, OrderTexts(c))
  \/ \E i \in 1..Len(calls) : FirstCallReturns(i, {TextResult(<<"reply">>)})

OrderSpec == Init /\ [][OrderNext]_vars

\* frames that fail validation, in a room that holds something
DropNext ==
  \/ \E c \in Conns : Connect(c)
  \/ \E c \in Conns : BadFrame(c)
  \/ Chat(1, {Remember, AskAI})
  \/ SettingsUpdate(1, {PromptChange})
  \/ ArtifactCreate(1, {ManualArtifact(1)})
  \/ \E i \in 1..Len(calls) : FirstCallReturns(i, {TextResult(<<"reply">>)})
  \/ Evict

DropSpec == Init /\ [][DropNext]_vars

\* frames that arrive around the hydration read
HydrateInputs(c) ==
  HelloInputs(c) \cup {AutoRespondOn, PromptChange, ManualArtifact(c), [type |-> "ping"]}

\* an artifact.create is offered while the artifacts stored and those on
\* their way are fewer than MaxArtifacts
RoomInStore ==
  LET stored == IF store.artifacts = <<>> THEN 0 ELSE Len(store.artifacts[1])
      waiting == Len(SelectSeq(held, LAMBDA f : f.msg.type = "artifact.create"))
                 + IF pending # <<>> /\ pending[1].msg.type = "artifact.create"
                   THEN 1 ELSE 0
  IN stored + waiting < MaxArtifacts

HydrateNext ==
  \/ GateOpen /\ held = <<>> /\ Connect(1)
  \/ \E msg \in HydrateInputs(1) :
        /\ msg.type = "artifact.create" => RoomInStore
        /\ Arrive(1, msg)
  \/ HydrationReturns
  \/ Release
  \/ held = <<>> /\ Evict

HydrateSpec == Init /\ [][HydrateNext]_vars

\* the heartbeat: clients that come, go, fall silent or keep pinging while
\* time passes, the alarm fires and the actor is dropped
HeartNext ==
  \/ \E c \in Conns : Connect(c)
  \/ \E c \in Conns : Close(c)
  \/ \E c \in Conns : Error(c)
  \/ \E c \in Conns : Ping(c)
  \/ Tick
  \/ Alarm
  \/ Evict

HeartSpec == Init /\ [][HeartNext]_vars

\* enough chat to fill the flush interval, with AI replies, a reset and
\* evictions in between
FlushNext ==
  \/ Connect(1)
  \/ Burst(1, {Hi, AskAI, Reset})
  \/ \E i \in 1..Len(calls) : FirstCallReturns(i, {TextResult(<<"reply">>), Failure})
  \/ Evict

FlushSpec == Init /\ [][FlushNext]_vars

\* artifacts and settings: every way to change them, and evictions
IdsLeft == nextId + PendingArtifacts <= MaxIds

ArtifactResults ==
  {TextResult(<<"reply">>), ToolResult(<<DeleteTool>>)}
  \cup (IF IdsLeft THEN {ToolResult(<<CreateTool>>)} ELSE {})

ArtifactNext ==
  \/ Connect(1)
  \/ IdsLeft /\ ArtifactCreate(1, {ManualArtifact(1), AIArtifact})
  \/ ArtifactDelete(1)
  \/ SettingsUpdate(1, {AutoRespondOn, PromptChange, NoChange})
  \/ Chat(1, {AskAI})
  \/ \E i \in 1..Len(calls) : FirstCallReturns(i, ArtifactResults)
  \/ \E i \in 1..Len(calls) : SecondCallReturns(i, {TextResult(<<"done">>)})
  \/ Evict

ArtifactSpec == Init /\ [][ArtifactNext]_vars

\* the rounds of a turn: tools in either order, a tool the room does not
\* have, and a second response that asks for tools again
AddX == ToolCall("add_memory", [text |-> <<"x">>])
DeleteFirst == ToolCall("delete_memory", [index |-> 0])

ToolRounds ==
  {TextResult(<<"reply">>), ToolResult(<<AddX, DeleteFirst>>),
   ToolResult(<<DeleteFirst, AddX>>), ToolResult(<<UnknownTool>>),
   ToolResult(<<UnknownTool, AddX>>)}

SecondRounds ==
  {TextResult(<<"done">>), ToolsAndText(<<AddX>>, <<"done">>),
   ToolsAndText(<<DeleteFirst>>, <<"done">>), Failure}

ToolNext ==
  \/ \E c \in Conns : Connect(c)
  \/ Chat(1, {AskAI})
  \/ \E i \in 1..Len(calls) : FirstCallReturns(i, ToolRounds)
  \/ \E i \in 1..Len(calls) : SecondCallReturns(i, SecondRounds)
  \/ PinnedFlush

ToolSpec == Init /\ [][ToolNext]_vars

\* a turn whose clients close, fail or fall silent and are reclaimed while
\* its inference call is pending; the first client triggers the turns
CancelNext ==
  \/ \E c \in Conns : Connect(c)
  \/ \E c \in Conns : Close(c)
  \/ \E c \in Conns : Error(c)
  \/ Chat(1, {AskAI})
  \/ Tick
  \/ Alarm
  \/ \E i \in 1..Len(calls) : FirstCallReturns(i, {TextResult(<<"reply">>), Failure})

CancelSpec == Init /\ [][CancelNext]_vars

\* index edits, by frames and by tools, whose index is no integer
OddNext ==
  \/ Connect(1)
  \/ MemoryAdd(1)
  \/ \E msg \in OddRemoveInputs : Receive(1, msg)
  \/ \E msg \in OddToggleInputs : Receive(1, msg)
  \/ Chat(1, {AskAI})
  \/ \E i \in 1..Len(calls) : FirstCallReturns(i, {ToolResult(<<tc>>) : tc \in OddToolCalls})
  \/ \E i \in 1..Len(calls) : SecondCallReturns(i, {TextResult(<<"done">>)})

OddSpec == Init /\ [][OddNext]_vars

\* frames of every kind while time passes and the scan runs: payloads that
\* are no string or no JSON, pings, frames that fail a check, plain chat
RawFrames == {[type |-> k] : k \in Unparsed}

RawFrame(c) == \E msg \in RawFrames : Receive(c, msg)

SeenNext ==
  \/ \E c \in Conns : Connect(c)
  \/ \E c \in Conns : RawFrame(c)
  \/ \E c \in Conns : Ping(c)
  \/ \E c \in Conns : BadFrame(c)
  \/ Chat(1, {Hi})
  \/ Tick
  \/ Alarm

SeenSpec == Init /\ [][SeenNext]_vars

\* pings in a room that holds something, has a turn in flight, or was dropped
PingNext ==
  \/ \E c \in Conns : Connect(c)
  \/ \E c \in Conns : Ping(c)
  \/ Chat(1, {Remember, AskAI})
  \/ \E i \in 1..Len(calls) : FirstCallReturns(i, {TextResult(<<"reply">>)})
  \/ PinnedFlush
  \/ Evict

PingSpec == Init /\ [][PingNext]_vars

\* chat texts with blanks around them, and of blanks only
Padded == <<Space, "hi", Space>>

BlankNext ==
  \/ \E c \in Conns : Connect(c)
  \/ \E c \in Conns : Hello(c)
  \/ \E c \in Conns : Chat(c, {Hi, Padded, Blank})
  \/ Evict

BlankSpec == Init /\ [][BlankNext]_vars

\* artifacts deleted by id, by title and by no key at all, by frames and by
\* the tool, in a room of up to MaxIds artifacts of one title
DeleteKeys == {UUID(1), UUID(2), <<"plan">>, <<"nope">>}

DeleteFrames ==
  {[type |-> "artifact.delete", id |-> k] : k \in DeleteKeys}
  \cup {[type |-> "artifact.delete"]}

DeleteRounds ==
  {ToolResult(<<ToolCall("delete_artifact", [id |-> k])>>) : k \in DeleteKeys}
  \cup {ToolResult(<<ToolCall("delete_artifact", [x |-> 0])>>)}

DeleteNext ==
  \/ \E c \in Conns : Connect(c)
  \/ nextId <= MaxIds /\ Receive(1, ManualArtifact(1))
  \/ \E msg \in DeleteFrames : Receive(1, msg)
  \/ Chat(1, {AskAI})
  \/ \E i \in 1..Len(calls) : FirstCallReturns(i, DeleteRounds)
  \/ \E i \in 1..Len(calls) : SecondCallReturns(i, {TextResult(<<"done">>)})

DeleteSpec == Init /\ [][DeleteNext]_vars

\* settings changed field by field, by frames that hold both fields, one,
\* none or no settings object, over a store that holds nothing or what an
\* earlier version left: settings of one field
AutoRespondOff == [type |-> "settings.update", settings |-> [aiAutoRespond |-> FALSE]]
BothSettings ==
  [type |-> "settings.update",
   settings |-> [systemPrompt |-> <<"Be brief.">>, aiAutoRespond |-> TRUE]]
NoSettings == [type |-> "settings.update"]

SettingsFrames ==
  {AutoRespondOn, AutoRespondOff, PromptChange, BothSettings, NoChange, NoSettings}

PartialStores ==
  { NoKeys,
    [NoKeys EXCEPT !.settings = <<[aiAutoRespond |-> TRUE]>>],
    [NoKeys EXCEPT !.settings = <<[systemPrompt |-> <<"Be formal.">>]>>] }

SettingsNext ==
  \/ \E c \in Conns : Connect(c)
  \/ \E c \in Conns : Hello(c)
  \/ \E c \in Conns : SettingsUpdate(c, SettingsFrames)
  \/ Evict

SettingsSpec == InitIn(PartialStores) /\ [][SettingsNext]_vars

\* a turn whose tools name an index, while the other client edits the lists
\* that the prompt of the turn listed
PositionTools ==
  {ToolCall(n, [index |-> k]) :
     n \in {"delete_memory", "delete_todo", "toggle_todo"}, k \in {0, 1}}

RemoveFirst(c) ==
  \E k \in {"memories", "todos"} :
     Receive(c, [type |-> "memory.remove", kind |-> k, index |-> 0])

DriftNext ==
  \/ \E c \in Conns : Connect(c)
  \/ MemoryAdd(1)
  \/ RemoveFirst(2)
  \/ Chat(1, {AskAI})
  \/ \E i \in 1..Len(calls) : FirstCallReturns(i, {ToolResult(<<tc>>) : tc \in PositionTools})
  \/ \E i \in 1..Len(calls) : SecondCallReturns(i, {TextResult(<<"done">>)})

DriftSpec == Init /\ [][DriftNext]_vars

\* artifacts that the AI writes: requests of two clients, named in the frame
\* or by their hello, while a turn is in flight or none is, and turns that
\* end in a text, in a failure, or run a tool first
AIArtifactBy(c) ==
  [type |-> "artifact.create", mode |-> "ai", artifactType |-> "plan",
   title |-> <<"Plan">>, user |-> UserOf(c)]

GenerateRounds == {TextResult(<<"reply">>), Failure, ToolResult(<<CreateTool>>)}

GenerateNext ==
  \/ \E c \in Conns : Connect(c)
  \/ Hello(2)
  \/ \E c \in Conns : \E msg \in {AIArtifact, AIArtifactBy(c)} :
        nextId <= MaxIds /\ Receive(c, msg)
  \/ Chat(1, {AskAI})
  \/ \E i \in 1..Len(calls) : \E res \in GenerateRounds :
        /\ calls[i].phase = 1
        /\ nextId <= MaxIds
        /\ Commit(AfterFirstCall(Cur, i, res), [act |-> "ai", call |-> calls[i], res |-> res])
  \/ \E i \in 1..Len(calls) : SecondCallReturns(i, {TextResult(<<"done">>)})

GenerateSpec == Init /\ [][GenerateNext]_vars

\* requests that are answered to their sender: hello, artifact.get with an
\* id that exists, one that does not and none, and artifact.list, among two
\* clients in a room that holds a message and an artifact
GetFrames ==
  {[type |-> "artifact.get", id |-> k] : k \in {UUID(1), UUID(2)}}
  \cup {[type |-> "artifact.get"]}

ListFrame == [type |-> "artifact.list"]

UnicastNext ==
  \/ \E c \in Conns : Connect(c)
  \/ \E c \in Conns : Hello(c)
  \/ \E c \in Conns : \E msg \in GetFrames : Receive(c, msg)
  \/ \E c \in Conns : Receive(c, ListFrame)
  \/ ArtifactCreate(1, {ManualArtifact(1)})
  \/ Chat(1, {Hi})
  \/ Evict

UnicastSpec == Init /\ [][UnicastNext]_vars

\* hydration over the todo lists a store may hold: none, plain strings as the
\* earlier version wrote them, structured items, and lists of both kinds
\* (the value read is taken as PinnedMemory unchecked, line 74)
TodoLists ==
  { <<LegacyTodo(<<"a">>), LegacyTodo(<<"b">>)>>,
    <<TodoItem(<<"a">>, TRUE)>>,
    <<LegacyTodo(<<"a">>), TodoItem(<<"b">>, TRUE)>>,
    <<TodoItem(<<"a">>, TRUE), LegacyTodo(<<"b">>)>> }

TodoStores ==
  {NoKeys} \cup
  {[NoKeys EXCEPT !.pinned = <<[memories |-> <<>>, todos |-> l]>>] : l \in TodoLists}

MigrateNext ==
  \/ \E c \in Conns : Connect(c)
  \/ \E c \in Conns : Close(c)
  \/ \E c \in Conns : Hello(c)
  \/ MemoryAdd(1)
  \/ PinnedFlush
  \/ Evict

MigrateSpec == InitIn(TodoStores) /\ [][MigrateNext]_vars

\* pinned memory changed in every way: by frames, by slash commands, by the
\* tools of a turn and by a reset, with the flush timer and evictions; the
\* timer that was set fires in the end
ClearTodos == ToolCall("clear_todos", [x |-> 0])

PinnedNext ==
  \/ Connect(1)
  \/ RoomForTodo /\ Receive(1, [type |-> "memory.add", kind |-> "todos", text |-> <<"y">>])
  \/ Receive(1, [type |-> "memory.toggle", index |-> 0])
  \/ Receive(1, [type |-> "memory.remove", kind |-> "memories", index |-> 0])
  \/ Chat(1, {Remember, Reset, AskAI})
  \/ \E i \in 1..Len(calls) : FirstCallReturns(i, {ToolResult(<<ClearTodos>>)})
  \/ \E i \in 1..Len(calls) : SecondCallReturns(i, {TextResult(<<"done">>)})
  \/ PinnedFlush
  \/ Evict

PinnedSpec == Init /\ [][PinnedNext]_vars /\ WF_vars(PinnedFlush)

(***************************************************************************)
(* Observations on a step: the callback that ran and what it sent          *)
(***************************************************************************)
IsFrame(l, type) == l.act = "frame" /\ l.msg.type = type

\* an accepted chat frame whose trimmed text is text
IsChat(l, text) == IsFrame(l, "chat") /\ ValidChat(l.msg) /\ Trim(l.msg.text) = text

\* the frames a callback sent to connection c, in order
FramesTo(o, c) ==
  LET sends == SelectSeq(o, LAMBDA e : e.ev = "send" /\ e.to = c)
  IN [i \in 1..Len(sends) |-> sends[i].msg]

\* the frames a callback sent, in order, whoever received them
Frames(o) ==
  LET sends == SelectSeq(o, LAMBDA e : e.ev = "send")
  IN [i \in 1..Len(sends) |-> sends[i].msg]

\* the store writes of a callback, in order
Puts(o) == SelectSeq(o, LAMBDA e : e.ev = "put")

ChatsFrom(frames, user) ==
  SelectSeq(frames, LAMBDA m : m.type = "chat" /\ m.user = user)

OfType(frames, type) == SelectSeq(frames, LAMBDA m : m.type = type)

\* the frames that start an AI turn when none is in flight, in state s
IsChatTrigger(s, msg) ==
  /\ msg.type = "chat"
  /\ ValidChat(msg)
  /\ LET t == Trim(msg.text)
     IN \/ t = <<"/summarize">>
        \/ StartsWith(t, <<"@ai", Space>>) /\ Trim(SliceFrom(t, <<"@ai", Space>>)) # <<>>
        \/ /\ s.settings.aiAutoRespond
           /\ ~StartsWithSlash(t)
           /\ ~StartsWith(t, <<"@ai", Space>>)

IsArtifactTrigger(msg) ==
  msg.type = "artifact.create" /\ Has(msg, "mode") /\ msg.mode = "ai"

IsTrigger(s, msg) == IsChatTrigger(s, msg) \/ IsArtifactTrigger(msg)

\* the step is the continuation of an inference call that delivered a text
\* which ends the turn
ReturnsText(l) ==
  /\ l.act = "ai"
  /\ ~l.res.throws
  /\ l.call.phase = 1 => l.res.tool_calls = <<>>
  /\ "response" \in DOMAIN l.res
  /\ l.res.response # <<>>

(***************************************************************************)
(* Bounded history                                                         *)
(***************************************************************************)
Min(a, b) == IF a <= b THEN a ELSE b

LastN(seq, n) == SubSeq(seq, Len(seq) - n + 1, Len(seq))

\* C1: after every chat send (user frames and AI replies) the history holds
\* at most MAX_HISTORY entries and is, in order, the last min(n, MAX_HISTORY)
\* of the n entries sent since the state was last reset, dropped or hydrated
HistoryIsBoundedSuffix ==
  /\ Len(history) <= MAX_HISTORY
  /\ history = LastN(sent, Min(Len(sent), MAX_HISTORY))

\* a send has pushed the oldest entry out
HistoryOverflowed ==
  /\ Len(sent) > MAX_HISTORY
  /\ Len(history) = MAX_HISTORY
  /\ IsFrame(last, "chat")

(***************************************************************************)
(* Single-flight AI turn                                                   *)
(***************************************************************************)
AlreadyThinking == <<"AI is already thinking... please wait.">>

\* C2: at most one inference call is pending; a trigger that arrives while
\* aiRunning is true leaves the pending calls as they are, and a call is only
\* ever started by a trigger that arrives while aiRunning is false
SingleFlight ==
  [][ /\ Len(calls') <= 1
      /\ (last'.act = "frame" /\ IsTrigger(Hydrated, last'.msg) /\ Hydrated.aiRunning)
           => calls' = calls
      /\ Len(calls') > Len(calls)
           => /\ last'.act = "frame"
              /\ IsTrigger(Hydrated, last'.msg)
              /\ ~Hydrated.aiRunning
              /\ Len(calls') = Len(calls) + 1 ]_vars

\* a chat trigger was turned away while an artifact was being generated
TriggerTurnedAway ==
  /\ IsFrame(last, "chat")
  /\ aiRunning
  /\ Len(calls) = 1
  /\ calls[1].kind = "artifact"
  /\ \E c \in conns : Len(SelectSeq(ChatsFrom(FramesTo(out, c), "System"),
                                    LAMBDA m : m.text = AlreadyThinking)) = 1

\* C3: a chat trigger that arrives while a turn's inference call is pending
\* broadcasts exactly one "already thinking" notice and neither starts a call
\* nor adds an AI entry; the pending call returns in the end, and when it
\* returns a text exactly one chat entry of user "AI" is broadcast and
\* appended to the history
OneNoticeOneReply ==
  /\ [][ /\ ( /\ last'.act = "frame"
              /\ IsChatTrigger(Hydrated, last'.msg)
              /\ Hydrated.aiRunning
              /\ calls # <<>> )
              => /\ calls' = calls
                 /\ \A c \in conns' :
                      /\ Len(SelectSeq(ChatsFrom(FramesTo(out', c), "System"),
                                       LAMBDA m : m.text = AlreadyThinking)) = 1
                      /\ Len(ChatsFrom(FramesTo(out', c), "System")) = 1
                      /\ ChatsFrom(FramesTo(out', c), "AI") = <<>>
                 /\ sent' = Append(sent, [user |-> last'.msg.user,
                                          text |-> Trim(last'.msg.text), ts |-> now])
         /\ (ReturnsText(last') /\ last'.call.kind = "chat")
              => /\ calls' = <<>>
                 /\ \A c \in conns' :
                      ChatsFrom(FramesTo(out', c), "AI") =
                        <<[type |-> "chat", user |-> "AI",
                           text |-> last'.res.response, ts |-> now]>>
                 /\ sent' = Append(sent, [user |-> "AI", text |-> last'.res.response,
                                          ts |-> now])
                 /\ history' # <<>>
                 /\ history'[Len(history')] = sent'[Len(sent')] ]_vars
  /\ (calls # <<>>) ~> (calls = <<>>)

\* two triggers in a row, then the one reply
ReplyAfterTwoTriggers ==
  /\ ReturnsText(last)
  /\ last.call.kind = "chat"
  /\ Len(history) >= 3
  /\ history[Len(history)].user = "AI"
  /\ IsChatTrigger(Cur, [type |-> "chat", user |-> history[Len(history) - 1].user,
                         text |-> history[Len(history) - 1].text])
  /\ IsChatTrigger(Cur, [type |-> "chat", user |-> history[Len(history) - 2].user,
                         text |-> history[Len(history) - 2].text])
  /\ Cardinality(conns) = MaxConns

\* C4: a turn whose inference call was issued ends and aiRunning is false
\* again: the step that ends a turn leaves aiRunning false whether it
\* succeeded or ended in an exception, a pending call leads to aiRunning
\* being false, and a trigger that then arrives and is handled to the end
\* starts a new turn
FlagReleased ==
  /\ [][ /\ (last'.act = "ai" /\ Len(calls') < Len(calls)) => ~aiRunning'
         /\ ( /\ last'.act = "frame"
              /\ IsTrigger(Hydrated, last'.msg)
              /\ ~Hydrated.aiRunning
              /\ ~threw' )
              => aiRunning' /\ Len(calls') = Len(calls) + 1 ]_vars
  /\ (calls # <<>>) ~> ~aiRunning

\* a turn whose reply and whose error notice both failed to be sent
TurnEndedInException ==
  /\ last.act = "ai"
  /\ threw
  /\ ~aiRunning
  /\ calls = <<>>

\* C5: aiRunning is true only while an inference call of a turn is pending
FlagMeansTurnInFlight == aiRunning => calls # <<>>

(***************************************************************************)
(* Index edits of pinned memory                                            *)
(***************************************************************************)
OutOfRangeText(what, index, count, plural) ==
  <<"Invalid ", what, " index ", ToString(index), ". There are ", ToString(count),
    " ", plural, " (0-indexed).">>

\* the list a frame addresses: "memories", "todos", or "" when it edits none
FrameList(msg) ==
  IF msg.type = "memory.toggle" THEN "todos"
  ELSE IF msg.type = "memory.remove" /\ Has(msg, "kind") /\ msg.kind \in {"memories", "todos"}
  THEN msg.kind
  ELSE ""

ToolList(tc) ==
  IF tc.name = "delete_memory" THEN "memories"
  ELSE IF tc.name \in {"delete_todo", "toggle_todo"} THEN "todos"
  ELSE ""

ToolIndex(tc) == IF "index" \in DOMAIN tc.arguments THEN tc.arguments.index ELSE -1

ListLen(p, list) == IF list = "memories" THEN Len(p.memories) ELSE Len(p.todos)

OutOfRange(p, list, index) == list # "" /\ (index < 0 \/ index >= ListLen(p, list))

ExpectedRefusal(p, list, index) ==
  OutOfRangeText(IF list = "memories" THEN "memory" ELSE "todo", index,
                 ListLen(p, list), list)

\* C6: an index edit, by a frame or by a tool of a turn, whose index is
\* outside 0..length-1 of the list it addresses returns the out-of-range
\* text, leaves pinned memory as it was, sends no memory_update and leaves
\* the flush timer as it was
BadIndexRefused ==
  [][ /\ ( /\ last'.act = "frame"
           /\ OutOfRange(Hydrated.pinned, FrameList(last'.msg), last'.msg.index) )
           => /\ ret' = ExpectedRefusal(Hydrated.pinned, FrameList(last'.msg),
                                        last'.msg.index)
              /\ pinned' = Hydrated.pinned
              /\ OfType(Frames(out'), "memory_update") = <<>>
              /\ pinnedFlushTimer' = pinnedFlushTimer
              /\ store' = store
      /\ ( /\ last'.act = "ai"
           /\ last'.call.phase = 1
           /\ Len(last'.res.tool_calls) = 1
           /\ OutOfRange(pinned, ToolList(last'.res.tool_calls[1]),
                         ToolIndex(last'.res.tool_calls[1])) )
           => /\ Len(calls') = 1
              /\ calls'[1].results =
                   <<ExpectedRefusal(pinned, ToolList(last'.res.tool_calls[1]),
                                     ToolIndex(last'.res.tool_calls[1]))>>
              /\ pinned' = pinned
              /\ OfType(Frames(out'), "memory_update") = <<>>
              /\ pinnedFlushTimer' = pinnedFlushTimer
              /\ store' = store ]_vars

\* a todo index past a list that holds todos was refused
TodoIndexRefused ==
  /\ IsFrame(last, "memory.remove")
  /\ last.msg.kind = "todos"
  /\ last.msg.index >= Len(pinned.todos)
  /\ pinned.todos # <<>>
  /\ ret # <<>>
  /\ ret[1] = "Invalid "

(***************************************************************************)
(* hello                                                                   *)
(***************************************************************************)
\* the snapshot of state s as a hello of connection c receives it
Snapshot(s, c) ==
  [i \in 1..Len(s.history) |->
     [ev |-> "send", to |-> c,
      msg |-> [type |-> "chat", user |-> s.history[i].user, text |-> s.history[i].text,
               ts |-> s.history[i].ts]]]
  \o <<[ev |-> "send", to |-> c, msg |-> [type |-> "memory_update", pinned |-> s.pinned]],
       [ev |-> "send", to |-> c,
        msg |-> [type |-> "artifact_list", items |-> ArtifactIndex(s.artifacts)]],
       [ev |-> "send", to |-> c,
        msg |-> [type |-> "settings_update", settings |-> s.settings]]>>

\* C7: a hello sends to its sender alone the history (oldest first), then
\* pinned memory, then the artifact index, then the settings, and leaves the
\* four and the store as they were; a hello that follows a hello receives the
\* same frames
HelloIsSnapshot ==
  [][ /\ IsFrame(last', "hello")
           => /\ out' = Snapshot(Hydrated, last'.conn)
              /\ history' = Hydrated.history
              /\ pinned' = Hydrated.pinned
              /\ artifacts' = Hydrated.artifacts
              /\ settings' = Hydrated.settings
              /\ store' = store
              /\ loaded => UNCHANGED <<history, pinned, artifacts, settings>>
      /\ (IsFrame(last, "hello") /\ IsFrame(last', "hello"))
           => Frames(out') = Frames(out) ]_vars

\* a hello has replayed a room in which all four parts hold something
HelloReplayedRoom ==
  /\ IsFrame(last, "hello")
  /\ Len(history) >= 2
  /\ pinned.memories # <<>>
  /\ artifacts # <<>>
  /\ settings # DEFAULT_SETTINGS
  /\ Len(out) = Len(history) + 3

(***************************************************************************)
(* /reset                                                                  *)
(***************************************************************************)
ClearedStore ==
  [pinned |-> <<EmptyPinned>>, history |-> << <<>> >>, artifacts |-> << <<>> >>,
   settings |-> <<DEFAULT_SETTINGS>>]

IsFullPut(e) == e.ev = "put" /\ \A k \in SK : e.put[k] # <<>>

IsClearChat(e) == e.ev = "send" /\ e.msg.type = "clear_chat"

Rehydrated == ensureLoaded(Dropped(Cur))

IsLegacy(todos) == todos # <<>> /\ \A i \in 1..Len(todos) : todos[i].str

\* C9: once pinned memory is flushed and not edited since, dropping the
\* in-memory state and hydrating gives the same pinned memory; hydrating a
\* stored pinned value gives that value, except that a stored list of
\* plain-string todos becomes one {text, done: false} per string, in order
PinnedRoundTrip ==
  /\ (loaded /\ ~pinnedFlushTimer /\ store.pinned # <<>>) => Rehydrated.pinned = pinned
  /\ (~loaded /\ store.pinned # <<>>)
       => LET stored == store.pinned[1]
          IN /\ Hydrated.pinned.memories = stored.memories
             /\ Hydrated.pinned.todos =
                  IF IsLegacy(stored.todos)
                  THEN [i \in 1..Len(stored.todos) |->
                          [str |-> FALSE, text |-> stored.todos[i].text, done |-> FALSE]]
                  ELSE stored.todos

\* the actor was dropped after a flush that wrote a completed todo
DroppedAfterFlush ==
  /\ last.act = "evict"
  /\ store.pinned # <<>>
  /\ store.pinned[1].todos # <<>>
  /\ store.pinned[1].todos[1].done
  /\ store.pinned[1].memories # <<>>

(***************************************************************************)
(* /memory                                                                 *)
(***************************************************************************)
\* the lines of a text
RECURSIVE Lines(_)
Lines(t) ==
  IF \A k \in 1..Len(t) : t[k] # NL THEN <<t>>
  ELSE LET k == CHOOSE k \in 1..Len(t) : t[k] = NL /\ \A j \in 1..(k - 1) : t[j] # NL
       IN <<SubSeq(t, 1, k - 1)>> \o Lines(SubSeq(t, k + 1, Len(t)))

\* the listing of pinned memory p: a section per list that holds something,
\* an empty line between the two, an entry per line under its position
Listing(p) ==
  LET mems == IF p.memories = <<>> THEN <<>>
              ELSE << <<"Pinned Memories:">> >> \o
                   [i \in 1..Len(p.memories) |->
                      <<"[", ToString(i - 1), "] ">> \o p.memories[i]]
      todos == IF p.todos = <<>> THEN <<>>
               ELSE << <<"Todos:">> >> \o
                    [i \in 1..Len(p.todos) |->
                       <<"[", ToString(i - 1), "] ", "[",
                         IF p.todos[i].done THEN "x" ELSE " ", "] ">> \o p.todos[i].text]
  IN mems \o (IF mems # <<>> /\ todos # <<>> THEN << <<>> >> ELSE <<>>) \o todos

\* C10: a /memory send broadcasts one System notice that lists every memory
\* and every todo under its position in its list, counted from 0; when it
\* follows a '/remember x' that made x the only memory, the memories section
\* has x at index 0
MemoryIsListed ==
  [][ /\ IsChat(last', <<"/memory">>)
           => \A c \in conns' :
                LET notices == ChatsFrom(FramesTo(out', c), "System")
                IN /\ Len(notices) = 1
                   /\ pinned' # EmptyPinned => Lines(notices[1].text) = Listing(pinned')
                   /\ pinned' = EmptyPinned
                        => notices[1].text = <<"No pinned memory yet.">>
      /\ ( /\ IsChat(last, <<"/remember", Space, "x">>)
           /\ pinned.memories = << <<"x">> >>
           /\ IsChat(last', <<"/memory">>) )
           => \A c \in conns' :
                LET text == ChatsFrom(FramesTo(out', c), "System")[1].text
                IN SubSeq(text, 1, 6) = <<"Pinned Memories:", NL, "[", "0", "] ", "x">> ]_vars

\* /memory has listed two memories and the todos
MemoriesWereListed ==
  /\ IsChat(last, <<"/memory">>)
  /\ Len(pinned.memories) = MaxMem
  /\ pinned.todos # <<>>
  /\ pinned.memories[MaxMem] = <<"x">>


(***************************************************************************)
(* Broadcast and failing sends                                             *)
(***************************************************************************)
\* whether frames holds a presence frame
HasPresence(frames) == \E i \in 1..Len(frames) : frames[i].type = "presence"

\* C11: a send that fails on one connection neither keeps a broadcast from
\* the other open connections nor ends the calling handler by an exception:
\* after a connect or a close, every open connection whose send works has
\* the presence frame and the handler has returned normally
BroadcastOutlivesFailedSend ==
  [][ last'.act \in {"connect", "close"}
        => /\ ~threw'
           /\ \A c \in conns' \ broken' : HasPresence(FramesTo(out', c)) ]_vars


(***************************************************************************)
(* Order of the frames of a chat                                           *)
(***************************************************************************)
\* a callback that answers its sender alone
UnicastStep(l) ==
  l.act = "frame" /\ l.msg.type \in {"hello", "ping", "artifact.get", "artifact.list"}

\* C12: on a valid chat frame every open connection receives the chat
\* message itself before any frame of the command in it, and two connections
\* that are open before and after a callback receive the same broadcast
\* frames in the same order
ChatBeforeItsCommand ==
  [][ /\ ( last'.act = "frame" /\ last'.msg.type = "chat" /\ ValidChat(last'.msg) )
         => \A c \in conns :
              LET got == FramesTo(out', c)
              IN /\ got # <<>>
                 /\ got[1].type = "chat"
                 /\ got[1].user = last'.msg.user
                 /\ got[1].text = Trim(last'.msg.text)
                 /\ got[1].ts = now
      /\ \A c1, c2 \in conns \cap conns' :
            ( UnicastStep(last') => last'.conn \notin {c1, c2} )
            => FramesTo(out', c1) = FramesTo(out', c2) ]_vars

\* two clients have just received a command's chat message and, after it,
\* the frames of the command
CommandSeenByTwo ==
  /\ last.act = "frame"
  /\ last.msg.type = "chat"
  /\ StartsWithSlash(Trim(last.msg.text))
  /\ conns = {1, 2}
  /\ \A c \in conns : Len(FramesTo(out, c)) >= 2


(***************************************************************************)
(* Frames that are dropped                                                 *)
(***************************************************************************)
\* the types webSocketMessage knows
KnownTypes ==
  {"ping", "hello", "memory.add", "memory.remove", "memory.toggle", "settings.update",
   "artifact.create", "artifact.delete", "artifact.get", "artifact.list", "chat"}

\* a chat frame whose user or text is missing, empty or too long
BadChat(msg) ==
  /\ msg.type = "chat"
  /\ \/ ~Has(msg, "user")
     \/ NameLen(msg.user) = 0
     \/ NameLen(msg.user) > 64
     \/ ~Has(msg, "text")
     \/ TextLen(msg.text) = 0
     \/ TextLen(msg.text) > 2000

\* C13: a chat frame whose user or text is missing, empty or too long, and a
\* frame of unknown type, leaves history, pinned memory, artifacts, settings
\* and aiRunning as they are (as the store gives them, when the frame is the
\* first after the state was dropped) and sends nothing
BadFrameIsDropped ==
  [][ ( /\ last'.act = "frame"
        /\ last'.msg.type \notin Unparsed
        /\ BadChat(last'.msg) \/ last'.msg.type \notin KnownTypes )
        => /\ history' = Hydrated.history
           /\ pinned' = Hydrated.pinned
           /\ artifacts' = Hydrated.artifacts
           /\ settings' = Hydrated.settings
           /\ aiRunning' = aiRunning
           /\ calls' = calls
           /\ loaded => UNCHANGED <<history, pinned, artifacts, settings, store>>
           /\ Frames(out') = <<>>
           /\ ~threw' ]_vars

\* a frame with a text that is too long has been dropped in a room that holds
\* history, pinned memory and an artifact while a turn is running
LongTextDropped ==
  /\ last.act = "frame"
  /\ last.msg.type = "chat"
  /\ Has(last.msg, "text") /\ TextLen(last.msg.text) > 2000
  /\ history # <<>>
  /\ pinned.memories # <<>>
  /\ artifacts # <<>>
  /\ aiRunning
  /\ Cardinality(conns) = 2


(***************************************************************************)
(* Hydration before use                                                    *)
(***************************************************************************)
\* state s with the four fields as a hydration from its store gives them
StoreView(s) ==
  HydrateFrom([s EXCEPT !.history = <<>>, !.pinned = EmptyPinned, !.artifacts = <<>>,
                        !.settings = DEFAULT_SETTINGS, !.loaded = TRUE, !.pending = <<>>],
              s.store)

AlarmsSet(o) == SelectSeq(o, LAMBDA e : e.ev = "setAlarm")

\* C15: while a connection is open and no handler runs, the wake-up timer is
\* pending; a handler sets at most one, HEARTBEAT_INTERVAL_MS ahead, and only
\* when none is pending (the one that is firing is gone), so there is never
\* more than one
OneTimerWhileOpen ==
  /\ [](conns # {} => alarmAt # <<>>)
  /\ [][ LET set == AlarmsSet(out')
         IN /\ Len(set) <= 1
            /\ set # <<>> => /\ alarmAt = <<>> \/ last'.act = "alarm"
                             /\ last'.act \in {"connect", "alarm"}
                             /\ conns' # {}
                             /\ set[1].at = clock + 30000
                             /\ alarmAt' = <<set[1].at>> ]_vars

\* a scan that left a connection open has set the next timer
ScanSetTimer ==
  /\ last.act = "alarm"
  /\ conns # {}
  /\ AlarmsSet(out) # <<>>
  /\ alarmAt = <<clock + 30000>>


\* C16: a scan closes an open connection exactly when the connection was
\* last heard from more than STALE_TIMEOUT_MS ago, whether or not the actor
\* was dropped and constructed anew in between
ScanClosesOnlyTheSilent ==
  [][ last'.act = "alarm"
        => \A c \in conns : c \notin conns' <=> clock - heard[c][1] > 45000 ]_vars


\* the presence frames among frames
Presences(frames) == SelectSeq(frames, LAMBDA m : m.type = "presence")

\* C17: a presence frame carries the number of connections that are open
\* when it is broadcast; every connect, close, error and every scan that
\* closed a connection broadcasts one (each open connection receives it
\* once), and a scan that closed none broadcasts none
PresenceCountsOpen ==
  [][ /\ \A i \in 1..Len(Frames(out')) :
           Frames(out')[i].type = "presence"
             => Frames(out')[i].count = Cardinality(conns')
      /\ ( \/ last'.act \in {"connect", "close", "error"}
           \/ last'.act = "alarm" /\ conns' # conns )
           => \A c \in conns' : Len(Presences(FramesTo(out', c))) = 1
      /\ ( last'.act = "alarm" /\ conns' = conns )
           => Presences(Frames(out')) = <<>> ]_vars

\* a scan has closed one of two connections and told the other
ScanToldTheOther ==
  /\ last.act = "alarm"
  /\ Cardinality(conns) = 1
  /\ \A c \in conns : Presences(FramesTo(out, c)) = <<[type |-> "presence", count |-> 1]>>


(***************************************************************************)
(* The delayed flush of pinned memory                                      *)
(***************************************************************************)
\* the writes of pinned memory among the events o
PinnedPuts(o) == SelectSeq(o, LAMBDA e : e.ev = "put" /\ e.put.pinned # <<>>)

\* C18: at most one flush of pinned memory is pending.  A handler that
\* changes pinned memory leaves exactly one pending, starting it only when
\* none was; while one is pending no handler writes pinned memory; and the
\* flush, when it fires, makes one write, of pinned memory as it is then
OneFlushPending ==
  /\ [](timers <= 1 /\ (pinnedFlushTimer <=> timers = 1))
  /\ [][ /\ ( last'.act = "frame" /\ pinned' # Hydrated.pinned )
              => timers' = 1
         /\ ( last'.act = "frame" /\ timers = 1 )
              => /\ PinnedPuts(out') = <<>>
                 /\ store'.pinned = store.pinned
                 /\ timers' = 1
         /\ last'.act = "flush"
              => /\ timers = 1 /\ timers' = 0
                 /\ Puts(out') = <<[ev |-> "put", put |-> [NoKeys EXCEPT !.pinned = <<pinned>>]]>>
                 /\ store'.pinned = <<pinned>>
                 /\ pinned' = pinned ]_vars

\* two memories were added, one flush is pending and nothing was written yet
TwoChangesOneFlush ==
  /\ IsFrame(last, "memory.add")
  /\ Len(pinned.memories) = 2
  /\ timers = 1
  /\ store.pinned = <<>>


(***************************************************************************)
(* The flush of the history                                                *)
(***************************************************************************)
\* the writes of the history among the events o
HistoryPuts(o) == SelectSeq(o, LAMBDA e : e.ev = "put" /\ e.put.history # <<>>)

\* history h after entry is appended to it
Appended(h, entry) ==
  LET all == Append(h, entry) IN LastN(all, Min(Len(all), 50))

\* C19: the entry that brings the count of entries appended since the
\* counter was last zero to five is followed at once by a write of the whole
\* buffer and sets the counter to zero; an earlier entry only counts; and a
\* reply of the AI is appended, the whole buffer with it is written at once
\* and the counter is zero afterwards
HistoryFlushedOnFifth ==
  /\ [](historyDirty \in 0..4)
  /\ [][ /\ ( last'.act = "frame" /\ last'.msg.type = "chat" /\ ValidChat(last'.msg) )
              => LET n == Hydrated.historyDirty + 1
                     text == Trim(last'.msg.text)
                     entry == [user |-> last'.msg.user, text |-> text, ts |-> now]
                     full == Appended(Hydrated.history, entry)
                 IN IF n = 5
                    THEN /\ HistoryPuts(out') # <<>>
                         /\ HistoryPuts(out')[1].put = [NoKeys EXCEPT !.history = <<full>>]
                         /\ historyDirty' = 0
                         /\ text # <<"/reset">> => store'.history = <<history'>>
                    ELSE /\ historyDirty' = n
                         /\ text # <<"/reset">>
                              => /\ HistoryPuts(out') = <<>>
                                 /\ store'.history = store.history
         /\ ( ReturnsText(last') /\ last'.call.kind = "chat" )
              => /\ history' = Appended(history, [user |-> "AI", text |-> last'.res.response,
                                                  ts |-> now])
                 /\ HistoryPuts(out') # <<>>
                 /\ store'.history = <<history'>>
                 /\ historyDirty' = 0 ]_vars

\* the fifth chat message of a new room has just been handled: the five are
\* in the store
FifthEntryFlushed ==
  /\ IsChat(last, <<"hi">>)
  /\ Len(history) = 5
  /\ historyDirty = 0
  /\ HistoryPuts(out) = <<[ev |-> "put", put |-> [NoKeys EXCEPT !.history = <<history>>]]>>
  /\ store.history = <<history>>


(***************************************************************************)
(* Artifacts and settings are written through                              *)
(***************************************************************************)
\* the values a callback wrote under key k, in order
ValuesPut(o, k) ==
  LET ps == SelectSeq(o, LAMBDA e : e.ev = "put" /\ e.put[k] # <<>>)
  IN [i \in 1..Len(ps) |-> ps[i].put[k][1]]

\* the last element of a sequence that is not empty
Last(seq) == seq[Len(seq)]

\* C20: a callback that changes the artifact list writes the new list, whole,
\* before it ends, and a settings.update writes the whole settings; so in a
\* loaded room the stored artifacts and settings are the ones in memory
\* (a key that was never written stands for the initial value)
WrittenThrough ==
  /\ [](loaded => /\ \/ store.artifacts = <<artifacts>>
                     \/ store.artifacts = <<>> /\ artifacts = <<>>
                  /\ \/ store.settings = <<settings>>
                     \/ store.settings = <<>> /\ settings = DEFAULT_SETTINGS)
  /\ [][ /\ ( last'.act # "evict" /\ artifacts' # Hydrated.artifacts )
              => /\ ValuesPut(out', "artifacts") # <<>>
                 /\ Last(ValuesPut(out', "artifacts")) = artifacts'
         /\ ( IsFrame(last', "settings.update") /\ Has(last'.msg, "settings") )
              => ValuesPut(out', "settings") = <<settings'>> ]_vars

\* a tool of a turn has created an artifact in a room whose settings were
\* changed: both are in the store
ToolArtifactStored ==
  /\ last.act = "ai"
  /\ Len(artifacts) = 1
  /\ artifacts[1].createdBy = "AI"
  /\ artifacts[1].type = "plan"
  /\ store.artifacts = <<artifacts>>
  /\ settings.aiAutoRespond
  /\ store.settings = <<settings>>



(***************************************************************************)
(* The tools of a turn                                                     *)
(***************************************************************************)
\* the step is the continuation of a first inference call that asked for tools
AsksForTools(l) ==
  /\ l.act = "ai"
  /\ l.call.phase = 1
  /\ ~l.res.throws
  /\ l.res.tool_calls # <<>>

\* C21: a tool call that fails (arguments that cannot be parsed, an exception
\* in the operation or in its broadcast) gives a textual result and does not
\* end the turn: every requested tool call has its result in the transcript
\* and the second inference call is issued
ToolFailureBecomesResult ==
  [][ AsksForTools(last')
        => /\ Len(calls') = 1
           /\ calls'[1].phase = 2
           /\ Len(calls'[1].results) = Len(last'.res.tool_calls)
           /\ aiRunning' ]_vars



\* the memory lists that a row of add_memory and delete_memory calls leaves
\* one after the other, when the calls run in their order on the list ms: a
\* call that changes nothing (a delete out of range, another tool) leaves none
RECURSIVE MemorySteps(_, _)
MemorySteps(ms, tcs) ==
  IF tcs = <<>> THEN <<>>
  ELSE LET tc == Head(tcs)
           adds == tc.name = "add_memory"
           deletes == /\ tc.name = "delete_memory"
                      /\ tc.arguments.index \in 0..(Len(ms) - 1)
           next == IF adds THEN ms \o <<tc.arguments.text>>
                   ELSE IF deletes
                   THEN [k \in 1..(Len(ms) - 1) |->
                           IF k <= tc.arguments.index THEN ms[k] ELSE ms[k + 1]]
                   ELSE ms
       IN (IF adds \/ deletes THEN <<next>> ELSE <<>>) \o MemorySteps(next, Tail(tcs))

\* the memory lists of the memory_update frames among frames
MemoriesTold(frames) ==
  LET ups == SelectSeq(frames, LAMBDA m : m.type = "memory_update")
  IN [k \in 1..Len(ups) |-> ups[k].pinned.memories]

\* C22: a turn makes at most two inference calls and runs at most one round
\* of tools.  The first call carries the tool schema; when its response asks
\* for no tool the turn ends without a second call; when it asks for tools
\* they run one after the other in the order asked, then the second call is
\* issued without the tool schema; the response of the second call ends the
\* turn and the tools it asks for are not run
OneRoundOfTools ==
  [][ /\ Len(calls') <= 1
      /\ Len(calls') > Len(calls) => calls'[1].phase = 1 /\ calls'[1].tools
      /\ ( last'.act = "ai" /\ last'.call.phase = 1 )
           => /\ last'.call.tools
              /\ IF AsksForTools(last')
                 THEN /\ calls' = <<[last'.call EXCEPT !.phase = 2, !.tools = FALSE,
                                                       !.results = calls'[1].results]>>
                      /\ Len(calls'[1].results) = Len(last'.res.tool_calls)
                      /\ \A c \in conns :
                           MemoriesTold(FramesTo(out', c)) =
                             MemorySteps(pinned.memories, last'.res.tool_calls)
                      /\ pinned'.memories =
                           Last(<<pinned.memories>>
                                \o MemorySteps(pinned.memories, last'.res.tool_calls))
                 ELSE /\ calls' = <<>>
                      /\ pinned' = pinned
      /\ ( last'.act = "ai" /\ last'.call.phase = 2 )
           => /\ ~last'.call.tools
              /\ calls' = <<>>
              /\ pinned' = pinned
              /\ artifacts' = artifacts
              /\ OfType(Frames(out'), "memory_update") = <<>>
              /\ Puts(out') = IF ReturnsText(last') /\ last'.call.kind = "chat"
                              THEN <<[ev |-> "put",
                                      put |-> [NoKeys EXCEPT !.history = <<history'>>]]>>
                              ELSE <<>> ]_vars

\* the second response of a turn asked for a tool again and the turn ended
\* with its text: the memory that the first round added is the only one
SecondRoundNotRun ==
  /\ last.act = "ai"
  /\ last.call.phase = 2
  /\ last.res.tool_calls = <<AddX>>
  /\ last.call.results = <<<<"Invalid ", "memory", " index ", "0", ". There are ", "0",
                             " ", "memories", " (0-indexed).">>,
                           <<"Added memory: ", "\"", "x", "\"">>>>
  /\ pinned.memories = << <<"x">> >>
  /\ history[Len(history)].user = "AI"
  /\ calls = <<>>



(***************************************************************************)
(* How a turn ends                                                         *)
(***************************************************************************)
\* the step ends the turn of a chat trigger
EndsChatTurn(l, before, after) ==
  l.act = "ai" /\ l.call.kind = "chat" /\ Len(after) < Len(before)

\* the error a turn that ends without a text ends with
ErrorOf(l) ==
  IF l.res.throws THEN <<"Error: inference failed">>
  ELSE IF l.call.phase = 2 THEN <<"Error: Empty AI response after tool calls">>
  ELSE IF l.res.tool_calls = <<>> THEN <<"Error: Empty AI response">>
  ELSE <<"SyntaxError: Unexpected token">>

\* C23: a turn of a chat trigger ends in one of two ways.  When the call that
\* ends it returns a text, one chat entry of user "AI" with that text is
\* appended to the history and sent to every open connection, and no notice.
\* Otherwise (the call throws, or the text is missing or empty) one System
\* notice "AI error: " with the error text is sent to every open connection,
\* no entry of user "AI" is sent and the history stays as it is
TurnEndsOneWay ==
  [][ EndsChatTurn(last', calls, calls')
        => IF ReturnsText(last')
           THEN LET entry == [user |-> "AI", text |-> last'.res.response, ts |-> now]
                IN /\ sent' = Append(sent, entry)
                   /\ history' = Appended(history, entry)
                   /\ \A c \in conns' :
                        FramesTo(out', c) =
                          <<[type |-> "chat", user |-> "AI", text |-> entry.text,
                             ts |-> entry.ts]>>
           ELSE /\ sent' = sent
                /\ history' = history
                /\ \A c \in conns' :
                     FramesTo(out', c) =
                       <<[type |-> "chat", user |-> "System",
                          text |-> <<"AI error: ">> \o ErrorOf(last'), ts |-> now]>> ]_vars

\* a turn has run its tools and ended with a notice, because the second
\* call returned no text
TurnFailedAfterTools ==
  /\ last.act = "ai"
  /\ last.call.kind = "chat"
  /\ last.call.phase = 2
  /\ ~last.res.throws
  /\ "response" \notin DOMAIN last.res
  /\ calls = <<>>
  /\ Cardinality(conns) = 2
  /\ \A c \in conns : ChatsFrom(FramesTo(out, c), "System") # <<>>



(***************************************************************************)
(* Frames during a turn                                                    *)
(***************************************************************************)
\* the state the room would be in were no turn in flight
Idle(s) == [s EXCEPT !.calls = <<>>, !.aiRunning = FALSE]

\* C24: while the inference call of a turn is pending, a chat frame of any
\* open connection is accepted and handled to its end as it is in an idle
\* room: its entry is appended, sent to every open connection, and its
\* command changes the room; the pending call stays as it is.  The reply is
\* appended after every entry that was appended before the call returned
FramesHandledDuringTurn ==
  /\ [](\A c \in conns :
          (calls # <<>> /\ now <= MaxNow) => ENABLED Chat(c, {Hi}))
  /\ [][ /\ ( /\ last'.act = "frame"
              /\ last'.msg.type = "chat"
              /\ ValidChat(last'.msg)
              /\ calls # <<>> )
              => LET idle == webSocketMessage(Idle(Cur), last'.conn, last'.msg)
                     entry == [user |-> last'.msg.user, text |-> Trim(last'.msg.text),
                               ts |-> now]
                 IN /\ calls' = calls
                    /\ aiRunning'
                    /\ history' = idle.history
                    /\ pinned' = idle.pinned
                    /\ artifacts' = idle.artifacts
                    /\ settings' = idle.settings
                    /\ store' = idle.store
                    /\ entry.text # <<"/reset">> => sent' = Append(sent, entry)
                    /\ \A c \in conns :
                         /\ FramesTo(out', c) # <<>>
                         /\ FramesTo(out', c)[1] = [type |-> "chat", user |-> entry.user,
                                                    text |-> entry.text, ts |-> entry.ts]
                    /\ ~IsChatTrigger(Cur, last'.msg) => out' = idle.out
         /\ ( ReturnsText(last') /\ last'.call.kind = "chat" )
              => /\ sent' = Append(sent, [user |-> "AI", text |-> last'.res.response,
                                          ts |-> now])
                 /\ history' = Appended(history, [user |-> "AI",
                                                  text |-> last'.res.response,
                                                  ts |-> now]) ]_vars

\* the reply of a turn came after a command that the other client saw handled
\* while the turn was in flight
ReplyAfterLaterChat ==
  /\ ReturnsText(last)
  /\ Len(history) >= 3
  /\ history[Len(history)].user = "AI"
  /\ history[Len(history) - 1].text = Remember
  /\ history[Len(history) - 2].text = AskAI
  /\ pinned.memories # <<>>
  /\ pinned.memories[Len(pinned.memories)] = <<"x">>



(***************************************************************************)
(* A turn outlives its client                                              *)
(***************************************************************************)
\* C25: a close, an error or a scan that reclaims a connection leaves the
\* pending inference call and aiRunning as they are, whichever connection it
\* takes away; when the call returns a text, whichever connections are open
\* then, the reply is appended to the history and sent to every one of them,
\* and aiRunning is false when the turn has ended
TurnOutlivesClient ==
  [][ /\ last'.act \in {"close", "error", "alarm"}
           => /\ calls' = calls
              /\ aiRunning' = aiRunning
              /\ history' = history
      /\ ( ReturnsText(last') /\ last'.call.kind = "chat" )
           => LET entry == [user |-> "AI", text |-> last'.res.response, ts |-> now]
              IN /\ calls' = <<>>
                 /\ ~aiRunning'
                 /\ history' = Appended(history, entry)
                 /\ conns' = conns
                 /\ \A c \in conns :
                      FramesTo(out', c) = <<[type |-> "chat", user |-> "AI",
                                             text |-> entry.text, ts |-> entry.ts]>>
      /\ ( last'.act = "ai" /\ Len(calls') < Len(calls) ) => ~aiRunning' ]_vars

\* the client that asked is gone and the other client has the reply
ReplyWithoutItsClient ==
  /\ ReturnsText(last)
  /\ last.call.kind = "chat"
  /\ conns = {2}
  /\ history[Len(history)].user = "AI"
  /\ history[Len(history) - 1].user = "ann"
  /\ FramesTo(out, 2) # <<>>
  /\ ~aiRunning
  /\ clock - Started > STALE_TIMEOUT_MS



(***************************************************************************)
(* The text of a chat entry                                                *)
(***************************************************************************)
\* C26: every chat entry that a chat frame appends to the history and sends
\* has a text that is not empty; a chat frame whose text is blanks only
\* appends nothing and sends nothing
ChatTextIsNeverEmpty ==
  [][ ( last'.act = "frame" /\ last'.msg.type = "chat" /\ Has(last'.msg, "text") )
        => /\ \A i \in 1..Len(history') : history'[i].text # <<>>
           /\ \A i \in 1..Len(Frames(out')) :
                Frames(out')[i].type = "chat" => Frames(out')[i].text # <<>>
           /\ Trim(last'.msg.text) = <<>>
                => /\ history' = Hydrated.history
                   /\ Frames(out') = <<>> ]_vars



(***************************************************************************)
(* Index edits with an index that is no position                           *)
(***************************************************************************)
\* an index edit by frame whose index is no integer
OddFrame(l) ==
  /\ l.act = "frame"
  /\ FrameList(l.msg) # ""
  /\ ~Has(l.msg, "index")

\* a tool round of one index edit whose index is no integer
OddTool(l) ==
  /\ AsksForTools(l)
  /\ Len(l.res.tool_calls) = 1
  /\ ToolList(l.res.tool_calls[1]) # ""
  /\ OddArg(l.res.tool_calls[1].arguments)

\* C27: an index edit, by a frame or by a tool, whose index is missing, no
\* number or no integer removes nothing and toggles nothing, and the handler
\* of the frame does not end by an exception
IndexMustBePosition ==
  [][ /\ OddFrame(last') => ( pinned' = Hydrated.pinned /\ ~threw' )
      /\ OddTool(last') => ( pinned' = pinned /\ ~threw' ) ]_vars



(***************************************************************************)
(* What counts as activity                                                 *)
(***************************************************************************)
\* C28: every frame that arrives on a connection, whatever its type and
\* whether or not it is valid (a ping, an unknown type, a chat that fails a
\* check, a payload that is no string or no JSON), sets the lastSeen of the
\* connection to the time it arrived
EveryFrameIsActivity ==
  [][ last'.act = "frame" => lastSeen'[last'.conn] = <<clock>> ]_vars



(***************************************************************************)
(* ping                                                                    *)
(***************************************************************************)
\* C29: a ping sends one pong to its sender and nothing to anyone else, does
\* not load the state, and leaves the history, pinned memory, the artifacts,
\* the settings, aiRunning, the counters of the persistence and the store as
\* they are
PingOnlyPongs ==
  [][ IsFrame(last', "ping")
        => /\ out' = <<[ev |-> "send", to |-> last'.conn, msg |-> [type |-> "pong"]]>>
           /\ ~threw'
           /\ loaded' = loaded
           /\ UNCHANGED <<history, pinned, artifacts, settings, aiRunning, calls,
                          historyDirty, pinnedFlushTimer, timers, store>> ]_vars

\* a ping was answered in a room that was dropped and whose store holds
\* pinned memory: the state is still not loaded
PingInDroppedRoom ==
  /\ IsFrame(last, "ping")
  /\ ~loaded
  /\ conns = {1, 2}
  /\ store.pinned # <<>>
  /\ pinned = EmptyPinned
  /\ out = <<[ev |-> "send", to |-> last.conn, msg |-> [type |-> "pong"]]>>



(***************************************************************************)
(* A tool the room does not have                                           *)
(***************************************************************************)
\* the positions of the tool calls tcs that name no tool of the room
UnknownAt(tcs) == {k \in 1..Len(tcs) : tcs[k].name \notin ToolNames}

\* C30: a tool call that names none of the nine tools has the result
\* "Unknown tool: " and the name; it changes nothing in the room, writes
\* nothing and sends nothing, and the turn goes on to the second call
UnknownToolIsReported ==
  [][ ( AsksForTools(last') /\ UnknownAt(last'.res.tool_calls) # {} )
        => /\ Len(calls') = 1
           /\ calls'[1].phase = 2
           /\ aiRunning'
           /\ Len(calls'[1].results) = Len(last'.res.tool_calls)
           /\ \A k \in UnknownAt(last'.res.tool_calls) :
                calls'[1].results[k] = <<"Unknown tool: ", last'.res.tool_calls[k].name>>
           /\ UnknownAt(last'.res.tool_calls) = 1..Len(last'.res.tool_calls)
                => /\ out' = <<>>
                   /\ ~threw'
                   /\ UNCHANGED <<history, pinned, artifacts, settings, store,
                                  historyDirty, pinnedFlushTimer, timers, conns>> ]_vars

\* a round of an unknown tool and a known one: the first is reported, the
\* second has run, and the second call is pending
UnknownThenKnown ==
  /\ AsksForTools(last)
  /\ last.res.tool_calls = <<UnknownTool, AddX>>
  /\ Len(calls) = 1
  /\ calls[1].phase = 2
  /\ calls[1].results = <<<<"Unknown tool: ", "fly">>, <<"Added memory: ", "\"", "x", "\"">>>>
  /\ pinned.memories # <<>>


(***************************************************************************)
(* System notices and the history                                          *)
(***************************************************************************)
\* the chat frames among frames that are System notices
Notices(frames) == ChatsFrom(frames, "System")

\* the entries that the chat frames of users other than System stand for
EntriesOf(frames) ==
  LET fs == SelectSeq(frames, LAMBDA m : m.type = "chat" /\ m.user # "System")
  IN [i \in 1..Len(fs) |-> [user |-> fs[i].user, text |-> fs[i].text, ts |-> fs[i].ts]]

\* C31 (as stated): every System notice that a callback sent is an entry of
\* the history afterwards, as a chat message of a user or of the AI is
SystemNoticesAreEntries ==
  \A i \in 1..Len(Frames(out)) :
     LET m == Frames(out)[i]
     IN (m.type = "chat" /\ m.user = "System" /\ ~IsFrame(last, "hello"))
          => \E j \in 1..Len(history) :
                history[j] = [user |-> "System", text |-> m.text, ts |-> m.ts]

\* C31 (amended): a System notice is a chat frame and no entry: the history
\* in memory and in the store holds no entry of the user System, a hello
\* replays none, and a callback appends to the history exactly the chat
\* messages of users and of the AI that it sent to each open connection,
\* however many notices it sent beside them
NoticesAreNotEntries ==
  /\ [](/\ \A j \in 1..Len(history) : history[j].user # "System"
        /\ store.history # <<>> =>
             \A j \in 1..Len(store.history[1]) : store.history[1][j].user # "System"
        /\ IsFrame(last, "hello") => Notices(Frames(out)) = <<>>)
  /\ [][ ( /\ last'.act \in {"frame", "ai"}
           /\ ~IsFrame(last', "hello")
           /\ ~IsChat(last', Reset) )
         => /\ \A c \in conns' : sent' = sent \o EntriesOf(FramesTo(out', c))
            /\ (conns' # {} /\ EntriesOf(Frames(out')) = <<>>) =>
                 /\ history' = history
                 /\ historyDirty' = historyDirty
                 /\ store'.history = store.history ]_vars

\* a hello in a room whose turn is in flight: the notice "AI is thinking..."
\* went out before, the history holds the message that asked for the turn,
\* and the replay holds that message and no notice
HelloAfterNotice ==
  /\ IsFrame(last, "hello")
  /\ aiRunning
  /\ \E j \in 1..Len(history) : history[j].text = AskAI
  /\ \E i \in 1..Len(Frames(out)) :
        Frames(out)[i].type = "chat" /\ Frames(out)[i].text = AskAI
  /\ Notices(Frames(out)) = <<>>


(***************************************************************************)
(* Deleting an artifact                                                    *)
(***************************************************************************)
\* the key of a deletion: the id of the frame, or of the tool call as
\* executeToolCall reads it
DeleteKey(l) ==
  IF l.act = "frame"
  THEN IF Has(l.msg, "id") THEN l.msg.id ELSE UndefinedText
  ELSE Arg(l.res.tool_calls[1].arguments, "id", <<>>)

\* the step is a deletion: the frame, or a round of the one tool
IsDeletion(l) ==
  \/ IsFrame(l, "artifact.delete")
  \/ AsksForTools(l) /\ Len(l.res.tool_calls) = 1
       /\ l.res.tool_calls[1].name = "delete_artifact"

\* the positions of the artifacts as that the key matches
KeyHits(as, key) == {i \in 1..Len(as) : MatchesKey(as[i], key)}

\* C32: a deletion whose key matches an artifact, by id or by title without
\* regard to case, removes the first match and no other, writes the list and
\* sends artifact_deleted with its id to every open connection; a deletion
\* whose key matches none, a missing key included, leaves the list as it is,
\* writes and sends nothing and ends without an exception
DeleteRemovesFirstMatch ==
  [][ IsDeletion(last') =>
        LET hits == KeyHits(artifacts, DeleteKey(last'))
        IN IF hits # {}
           THEN LET first == CHOOSE i \in hits : \A j \in hits : i <= j
                IN /\ artifacts' = RemoveAt(artifacts, first - 1)
                   /\ ValuesPut(out', "artifacts") = <<artifacts'>>
                   /\ \A c \in conns :
                        FramesTo(out', c) =
                          <<[type |-> "artifact_deleted", id |-> artifacts[first].id]>>
                   /\ ~threw'
           ELSE /\ artifacts' = artifacts
                /\ out' = <<>>
                /\ ~threw' ]_vars


(***************************************************************************)
(* Settings                                                                *)
(***************************************************************************)
SettingsFields == {"systemPrompt", "aiAutoRespond"}

\* the defaults overlaid with the fields of a stored value
Overlaid(stored) ==
  [f \in SettingsFields |-> IF f \in DOMAIN stored THEN stored[f] ELSE DEFAULT_SETTINGS[f]]

\* the settings a handler finds: those in memory, or those it hydrates
SettingsFound ==
  IF loaded \/ store.settings = <<>> THEN settings ELSE Overlaid(store.settings[1])

\* C33: a settings.update sets the fields its settings object holds and leaves
\* the others, writes the whole settings and sends them to every open
\* connection; a settings.update without a settings object changes nothing
\* and ends without an exception; a hydration over stored settings that lack
\* a field gives the defaults overlaid with the stored fields
SettingsMergeFieldwise ==
  [][ /\ ( IsFrame(last', "settings.update") /\ Has(last'.msg, "settings") )
           => /\ settings' = [f \in SettingsFields |->
                                IF f \in DOMAIN last'.msg.settings
                                THEN last'.msg.settings[f] ELSE SettingsFound[f]]
              /\ ValuesPut(out', "settings") = <<settings'>>
              /\ \A c \in conns :
                   FramesTo(out', c) = <<[type |-> "settings_update", settings |-> settings']>>
              /\ ~threw'
      /\ ( IsFrame(last', "settings.update") /\ ~Has(last'.msg, "settings") )
           => /\ settings' = SettingsFound
              /\ store'.settings = store.settings
              /\ ~threw'
      /\ ( ~loaded /\ loaded' /\ last'.act = "connect" /\ store.settings # <<>> )
           => settings' = Overlaid(store.settings[1]) ]_vars


(***************************************************************************)
(* Index tools and a list that moved while the call was pending            *)
(***************************************************************************)
\* the step is a round of one tool that names a position by an integer
IsPositionTool(l) ==
  /\ AsksForTools(l)
  /\ Len(l.res.tool_calls) = 1
  /\ l.res.tool_calls[1].name \in {"delete_memory", "delete_todo", "toggle_todo"}
  /\ "index" \in DOMAIN l.res.tool_calls[1].arguments

\* C34: a tool that names an index acts on the element that stands at that
\* position when the tool runs, whatever the prompt of the turn listed there:
\* delete_memory and delete_todo remove that element and report its text,
\* toggle_todo turns its mark, and an index past the list as it is now is
\* refused
ToolActsOnCurrentPosition ==
  [][ IsPositionTool(last') =>
        LET tc == last'.res.tool_calls[1]
            k == tc.arguments.index
            result == calls'[1].results[1]
        IN /\ Len(calls') = 1
           /\ tc.name = "delete_memory" =>
                IF k < Len(pinned.memories)
                THEN /\ pinned' = [pinned EXCEPT !.memories = RemoveAt(@, k)]
                     /\ result = <<"Deleted memory at index ", ToString(k), ": ">>
                                   \o Quoted(pinned.memories[k + 1])
                ELSE pinned' = pinned /\ Head(result) = "Invalid "
           /\ tc.name = "delete_todo" =>
                IF k < Len(pinned.todos)
                THEN /\ pinned' = [pinned EXCEPT !.todos = RemoveAt(@, k)]
                     /\ result = <<"Deleted todo at index ", ToString(k), ": ">>
                                   \o Quoted(pinned.todos[k + 1].text)
                ELSE pinned' = pinned /\ Head(result) = "Invalid "
           /\ tc.name = "toggle_todo" =>
                IF k < Len(pinned.todos)
                THEN pinned' = [pinned EXCEPT !.todos[k + 1].done = ~@]
                ELSE pinned' = pinned /\ Head(result) = "Invalid " ]_vars

\* the prompt of the turn listed "m" under 0 and "y" under 1; the other
\* client removed "m" while the call was pending; delete_memory(0) has
\* removed "y"
DeletedWhatMovedUp ==
  /\ IsPositionTool(last)
  /\ last.res.tool_calls[1] = ToolCall("delete_memory", [index |-> 0])
  /\ ListedMemory(last.call.memoryBlock, 0) = << <<"m">> >>
  /\ ListedMemory(last.call.memoryBlock, 1) = << <<"y">> >>
  /\ Len(calls) = 1
  /\ calls[1].results = << <<"Deleted memory at index ", "0", ": ", "\"", "y", "\"">> >>
  /\ pinned.memories = <<>>


(***************************************************************************)
(* Artifacts written by the AI                                             *)
(***************************************************************************)
\* the step is an artifact.create frame of mode "ai"
IsAICreate(l) == l.act = "frame" /\ IsArtifactTrigger(l.msg)

\* the name an artifact.create frame of connection c asks under
Requester(c, msg) ==
  IF Has(msg, "user") /\ msg.user # "" THEN msg.user
  ELSE IF userNames[c] # "" THEN userNames[c] ELSE "Unknown"

\* C35: an artifact.create of mode "ai" that arrives while aiRunning is true
\* creates no artifact, issues no inference call, is kept nowhere, and its
\* sender is sent one System notice; one that arrives while aiRunning is
\* false sets aiRunning and issues one call; the text that ends its turn adds
\* one artifact, created by the user who asked, and no entry to the history
AIArtifactTurn ==
  [][ /\ ( IsAICreate(last') /\ aiRunning )
           => /\ out' = <<[ev |-> "send", to |-> last'.conn,
                           msg |-> [type |-> "chat", user |-> "System",
                                    text |-> <<"AI is busy, try again shortly.">>,
                                    ts |-> now]]>>
              /\ ~threw'
              /\ UNCHANGED <<artifacts, calls, aiRunning, history, sent, pinned, settings,
                             store, nextId, held, pending, timers, historyDirty, conns>>
      /\ ( IsAICreate(last') /\ ~aiRunning )
           => /\ aiRunning'
              /\ Len(calls') = Len(calls) + 1
              /\ Len(calls') = 1
              /\ calls'[1].kind = "artifact"
              /\ calls'[1].phase = 1
              /\ calls'[1].userName = Requester(last'.conn, last'.msg)
              /\ \A c \in conns : Notices(FramesTo(out', c)) = FramesTo(out', c)
                                  /\ Len(FramesTo(out', c)) = 1
              /\ UNCHANGED <<artifacts, history, sent, store, nextId>>
      /\ ( last'.act = "ai" /\ last'.call.kind = "artifact" /\ ReturnsText(last') )
           => /\ Len(artifacts') = Len(artifacts) + 1
              /\ SubSeq(artifacts', 1, Len(artifacts)) = artifacts
              /\ Last(artifacts').createdBy = last'.call.userName
              /\ Last(artifacts').content = last'.res.response
              /\ Last(artifacts').type = last'.call.artifactType
              /\ ValuesPut(out', "artifacts") = <<artifacts'>>
              /\ \A c \in conns : OfType(FramesTo(out', c), "chat") = <<>>
              /\ ~aiRunning'
              /\ calls' = <<>>
              /\ UNCHANGED <<history, sent, historyDirty>>
              /\ store'.history = store.history ]_vars

\* the second client, known by its hello, asked without a name in the frame;
\* the turn has ended and the artifact carries the client's name
ArtifactByRequester ==
  /\ last.act = "ai"
  /\ last.call.kind = "artifact"
  /\ ReturnsText(last)
  /\ artifacts # <<>>
  /\ Last(artifacts).createdBy = "bob"
  /\ "user" \notin DOMAIN AIArtifact
  /\ Last(artifacts).type = AIArtifact.artifactType
  /\ \A j \in 1..Len(history) : history[j].user # "AI"
  /\ ~aiRunning


(***************************************************************************)
(* Requests answered to their sender alone                                 *)
(***************************************************************************)
\* the artifacts of the hydrated room whose id is the id of the frame
Asked(msg) ==
  SelectSeq(Hydrated.artifacts, LAMBDA a : Has(msg, "id") /\ a.id = msg.id)

\* C36: what a hello, an artifact.get or an artifact.list sends goes to the
\* connection that asked and to no other; an artifact.get sends the whole
\* artifact of that id, and nothing at all when no artifact has the id; an
\* artifact.list sends one list of the artifacts without their content
AnsweredToSenderOnly ==
  [][ /\ ( last'.act = "frame"
           /\ last'.msg.type \in {"hello", "artifact.get", "artifact.list"} )
           => /\ \A c \in Conns \ {last'.conn} : FramesTo(out', c) = <<>>
              /\ ~threw'
              /\ artifacts' = Hydrated.artifacts
      /\ IsFrame(last', "artifact.get")
           => FramesTo(out', last'.conn) =
                IF Asked(last'.msg) = <<>> THEN <<>>
                ELSE <<[type |-> "artifact_detail", artifact |-> Asked(last'.msg)[1]]>>
      /\ IsFrame(last', "artifact.list")
           => FramesTo(out', last'.conn) =
                <<[type |-> "artifact_list", items |-> ArtifactIndex(Hydrated.artifacts)]>> ]_vars

\* the second of two open connections asked for the artifact that the first
\* created, and it alone was sent the artifact
DetailToTheAsker ==
  /\ IsFrame(last, "artifact.get")
  /\ last.conn = 2
  /\ conns = {1, 2}
  /\ Len(out) = 1
  /\ out[1].ev = "send"
  /\ out[1].to = 2
  /\ out[1].msg.type = "artifact_detail"
  /\ out[1].msg.artifact.createdBy = "ann"
  /\ out[1].msg.artifact.content = <<"body">>


(***************************************************************************)
(* The migration of the todos                                              *)
(***************************************************************************)
\* a stored todo as the migration should leave it
Structured(t) == IF t.str THEN TodoItem(t.text, FALSE) ELSE t

\* the step is a connect or a hello that hydrates the room
Hydrates(l) == l.act = "connect" \/ IsFrame(l, "hello")

StoredHistory == IF store.history = <<>> THEN <<>> ELSE store.history[1]

\* the history in memory before its k newest appends
HistoryBefore(k) ==
  LET h == SubSeq(sent, 1, Len(sent) - k)
  IN LastN(h, Min(Len(h), MAX_HISTORY))

\* C38: between callbacks the stored history is the history in memory as it
\* was before its newest appends, four at most, and none of those is a reply
\* of the AI; the hydration after an eviction takes the stored history, so an
\* eviction loses four entries at most and no reply of the AI
EvictionLosesFewEntries ==
  /\ [](loaded =>
          /\ historyDirty < HISTORY_FLUSH_INTERVAL
          /\ \E k \in 0..(HISTORY_FLUSH_INTERVAL - 1) :
               /\ k <= Len(sent)
               /\ k <= historyDirty
               /\ StoredHistory = HistoryBefore(k)
               /\ \A j \in (Len(sent) - k + 1)..Len(sent) : sent[j].user # "AI")
  /\ [][ ( ~loaded /\ loaded' /\ Hydrates(last') ) => history' = StoredHistory ]_vars

\* four messages came in after a reply of the AI: the store holds the history
\* up to the reply and none of the four
FourEntriesUnflushed ==
  /\ loaded
  /\ historyDirty = HISTORY_FLUSH_INTERVAL - 1
  /\ Len(history) = Len(StoredHistory) + HISTORY_FLUSH_INTERVAL - 1
  /\ StoredHistory # <<>>
  /\ Last(StoredHistory).user = "AI"
  /\ StoredHistory = SubSeq(history, 1, Len(StoredHistory))


(***************************************************************************)
(* Pinned memory and its store                                             *)
(***************************************************************************)
\* the pinned memory as the store holds it: empty when the key is absent
StoredPinned == IF store.pinned = <<>> THEN EmptyPinned ELSE store.pinned[1]

PinnedInStore == StoredPinned = pinned

\* C39: between callbacks of a hydrated room, pinned memory that differs from
\* the stored value has a flush timer pending; so, unless the room is dropped
\* first, the stored value comes to equal the one in memory
UnsavedPinnedHasTimer ==
  /\ []((loaded /\ ~PinnedInStore) => (pinnedFlushTimer /\ timers > 0))
  /\ ((loaded /\ ~PinnedInStore) ~> (PinnedInStore \/ ~loaded))

\* a tool of a turn cleared the todos after a /reset; the change waits for its
\* timer
ToolChangeAwaitsFlush ==
  /\ AsksForTools(last)
  /\ last.res.tool_calls = <<ClearTodos>>
  /\ loaded
  /\ ~PinnedInStore
  /\ pinnedFlushTimer
  /\ timers = 1


(***************************************************************************)
(* What starts a turn                                                      *)
(***************************************************************************)
\* the turns that wait for their first inference call
Waiting(cs) == Len(SelectSeq(cs, LAMBDA call : call.phase = 1))

\* C40: a turn is started only by a frame of a client that asks for one, and
\* one frame starts at most one; the callback that delivers a reply or the
\* notice of a failure starts none, whether or not the room responds
\* automatically
OnlyFramesStartTurns ==
  [][ /\ last'.act = "ai"
        => /\ Waiting(calls') = Waiting(calls) - (IF last'.call.phase = 1 THEN 1 ELSE 0)
           /\ Len(calls') <= Len(calls)
      /\ Waiting(calls') > Waiting(calls)
        => /\ last'.act = "frame"
           /\ IsChatTrigger(Hydrated, last'.msg) \/ IsArtifactTrigger(last'.msg)
           /\ Waiting(calls') = Waiting(calls) + 1
           /\ Len(calls') = Len(calls) + 1 ]_vars

\* the room responds automatically, the reply to a message was appended, and
\* no turn is running
ReplyLeftUnanswered ==
  /\ loaded
  /\ settings.aiAutoRespond
  /\ last.act = "ai"
  /\ last.call.kind = "chat"
  /\ ReturnsText(last)
  /\ history # <<>>
  /\ history[Len(history)].user = "AI"
  /\ calls = <<>>
  /\ ~aiRunning

=============================================================================
